---- MODULE Spec2Model ----
(***************************************************************************)
(* Model of pbcr: the userspace TCP proxy stack (pbcr/networking/tcp.py),  *)
(* the packet formats and the TUN reader, the launch of a container        *)
(* (pbcr/run.py, pbcr/forkbarrier.py) and the container store              *)
(* (pbcr/storage.py).  Each part has its own specification over its own    *)
(* variables; the others keep the value Idle.                              *)
(*                                                                         *)
(* The stack runs on one asyncio event loop.  A coroutine runs without     *)
(* interruption from one await to the next, so every action below is one   *)
(* such run: the start of a packet's _do_handle task up to its first       *)
(* suspension, or the resumption of a suspended coroutine up to its next   *)
(* suspension or its end.  The three suspension points of the code are     *)
(* asyncio.open_connection, StreamReader.read and StreamWriter.drain.      *)
(***************************************************************************)
EXTENDS Integers, Sequences, FiniteSets, TLC

VARIABLES
    tcb,     \* the _TCB objects ever allocated, by identity (1..Len(tcb))
    table,   \* TCPStack._tcb: four-tuple -> identity of its _TCB, 0 if absent
    out,     \* every segment handed to TCPStack.writer, in order
    tasks,   \* the suspended or not yet started coroutines of the loop
    io,      \* per _TCB: connections dialed, payloads written, readers spawned
    exc,     \* the exception that ended the last run of a coroutine, or NoExc
    npkts,   \* packets handled so far
    nreads,  \* data chunks read from host streams so far
    rdr,     \* run._reader: the thread that reads the TUN device
    wire,    \* a buffer or header pair and what checksum/build/parse made of it
    mapper,  \* _UIDMapper: a set of ids and the arguments made of it
    run,     \* run_command: the parent and child of a ForkBarrier
    store    \* FileContainerStorage: containers.json and the last lookup

vars == <<tcb, table, out, tasks, io, exc, npkts, nreads, rdr, wire, mapper, run, store>>

---------------------------------------------------------------------------
(* Bounds of the model *)

MaxPackets == 5
MaxReads == 1

(* TCPFlags *)
FIN == 1
SYN == 2
RST == 4
PSH == 8
ACK == 16

(* Sequence numbers are Python integers that can pass 2^32 - 1.  A number  *)
(* x is held as <<x \div 2^16, x % 2^16>>, which keeps every value the     *)
(* code can compute exact.                                                 *)
Half == 256 * 256

Num(n) == <<n \div Half, n % Half>>

Plus(x, n) == <<x[1] + (x[2] + n) \div Half, (x[2] + n) % Half>>

Leq(x, y) == x[1] < y[1] \/ (x[1] = y[1] /\ x[2] <= y[2])

(* 2^32 - 1, the largest value int.to_bytes(x, 4, "big") converts *)
MaxU32 == <<Half - 1, Half - 1>>

Fits4(x) == Leq(x, MaxU32)

(* window size written into every _TCB *)
Window == 8192

HasFlag(flags, f) == (flags \div f) % 2 = 1

---------------------------------------------------------------------------
(* Inputs: the segments the container can put on the TUN device *)

ContainerIps == {"192.168.64.2"}
RemoteIps == {"10.0.0.1", "10.0.0.2"}
ContainerPorts == {1234}
DialedPorts == {80}
Seqs == {Num(7), MaxU32}
PayloadLens == {0, 1}
FlagSets == {SYN, ACK, FIN + ACK, SYN + ACK, RST}
ChunkLens == {2}

(* every segment shape towards the first remote address, and the SYN that *)
(* opens a second flow towards the other one                               *)
Packets ==
    [src : ContainerIps, dst : {"10.0.0.1"}, sport : ContainerPorts,
     dport : DialedPorts, seq : Seqs, flags : FlagSets, len : PayloadLens]
    \cup
    [src : ContainerIps, dst : {"10.0.0.2"}, sport : ContainerPorts,
     dport : DialedPorts, seq : {Num(7)}, flags : {SYN}, len : {0}]

Keys == ContainerIps \X DialedPorts \X RemoteIps \X ContainerPorts

NoPkt ==
    [src |-> "", dst |-> "", sport |-> 0, dport |-> 0, seq |-> Num(0),
     flags |-> 0, len |-> 0]

NoExc == ""
Await == "await"

(* the value of the variables of a part of the program that is not running *)
Idle == <<>>

---------------------------------------------------------------------------
(* The state a coroutine run works on, threaded through its statements.    *)
(* halt is NoExc while the run continues, Await once it has suspended, and *)
(* the exception's name once one propagates.                               *)

Ctx ==
    [tcb |-> tcb, table |-> table, out |-> out, tasks |-> tasks,
     io |-> io, halt |-> NoExc]

Raise(c, name) == [c EXCEPT !.halt = name]

Commit(c) ==
    /\ tcb' = c.tcb
    /\ table' = c.table
    /\ out' = c.out
    /\ tasks' = c.tasks
    /\ io' = c.io
    /\ exc' = IF c.halt = Await THEN NoExc ELSE c.halt
    /\ UNCHANGED <<wire, mapper, run, store>>

PacketKey(p) == <<p.src, p.dport, p.dst, p.sport>>

TcbKey(t) == <<t.src_ip, t.src_port, t.dst_ip, t.dst_port>>

NewTcb(p) ==
    [src_ip |-> p.src, dst_ip |-> p.dst,
     src_port |-> p.dport, dst_port |-> p.sport,
     snd_una |-> Num(0), snd_nxt |-> Num(1), snd_wnd |-> Window,
     iss |-> Num(1),
     rcv_nxt |-> Plus(p.seq, 1), rcv_wnd |-> Window, irs |-> p.seq,
     state |-> "LISTEN", proxy |-> FALSE]

NoIo == [dialed |-> <<>>, written |-> <<>>, readers |-> 0]

(* a _get_tcb without the SYN test: any segment for an unknown four-tuple  *)
(* creates a _TCB                                                          *)
GetTcbAnySegment(c, p) ==
    LET key == PacketKey(p) IN
    IF c.table[key] = 0
    THEN LET id == Len(c.tcb) + 1 IN
         [c |-> [c EXCEPT !.tcb = Append(@, NewTcb(p)),
                          !.io = Append(@, NoIo),
                          !.table[key] = id],
          id |-> id]
    ELSE [c |-> c, id |-> c.table[key]]

(* a _get_tcb without the lookup: every SYN creates a _TCB and replaces    *)
(* the entry of its four-tuple                                             *)
GetTcbEverySyn(c, p) ==
    LET key == PacketKey(p) IN
    IF HasFlag(p.flags, SYN)
    THEN LET id == Len(c.tcb) + 1 IN
         [c |-> [c EXCEPT !.tcb = Append(@, NewTcb(p)),
                          !.io = Append(@, NoIo),
                          !.table[key] = id],
          id |-> id]
    ELSE [c |-> c, id |-> c.table[key]]

(* TCPStack._get_tcb: the context after the lookup and the _TCB found or   *)
(* created (0 for None).                                                   *)
GetTcb(c, p) ==
    LET key == PacketKey(p) IN
    IF c.table[key] = 0
    THEN IF ~HasFlag(p.flags, SYN)
         THEN [c |-> c, id |-> 0]
         ELSE LET id == Len(c.tcb) + 1 IN
              [c |-> [c EXCEPT !.tcb = Append(@, NewTcb(p)),
                               !.io = Append(@, NoIo),
                               !.table[key] = id],
               id |-> id]
    ELSE [c |-> c, id |-> c.table[key]]

(* TCPInfo.build converts seq and ack with int.to_bytes(x, 4, "big") *)
BuildFails(t) == ~Fits4(t.snd_nxt) \/ ~Fits4(t.rcv_nxt)

BuildResponse(t, id, flags, len) ==
    [tcb |-> id, src |-> t.dst_ip, dst |-> t.src_ip,
     sport |-> t.src_port, dport |-> t.dst_port,
     seq |-> t.snd_nxt, ack |-> t.rcv_nxt, flags |-> flags, len |-> len]

(* a _send_response that sets snd_nxt back to iss after a SYN or a FIN *)
SendResponseRewind(c, id, seg) ==
    [c EXCEPT !.out = Append(@, seg),
              !.tcb[id].snd_nxt =
                  IF HasFlag(seg.flags, SYN) \/ HasFlag(seg.flags, FIN)
                  THEN c.tcb[id].iss ELSE @]

SendResponse(c, id, seg) ==
    [c EXCEPT !.out = Append(@, seg),
              !.tcb[id].snd_nxt =
                  IF HasFlag(seg.flags, SYN) \/ HasFlag(seg.flags, FIN)
                  THEN Plus(@, 1) ELSE @]

(* response = self._build_response(...); self._send_response(response, tcb) *)
Respond(c, id, flags, len) ==
    IF BuildFails(c.tcb[id])
    THEN Raise(c, "OverflowError")
    ELSE SendResponse(c, id, BuildResponse(c.tcb[id], id, flags, len))

(* a coroutine of the loop: what it awaits, the _TCB and segment it holds; *)
(* n tells apart coroutines that hold the same                             *)
Task(kind, id, n, p) == [kind |-> kind, tcb |-> id, n |-> n, pkt |-> p]

FreshN(ts, kind, id, p) ==
    CHOOSE n \in 1..(Cardinality(ts) + 1) :
        /\ Task(kind, id, n, p) \notin ts
        /\ \A m \in 1..(n - 1) : Task(kind, id, m, p) \in ts

HandleListen(c, id, p) ==
    IF HasFlag(p.flags, SYN)
    THEN [c EXCEPT !.tcb[id].state = "SYN_RECEIVED",
                   !.io[id].dialed =
                       Append(@, [host |-> "127.0.0.1",
                                  port |-> c.tcb[id].src_port]),
                   !.tasks = @ \cup {Task("connect", id, 1, NoPkt)},
                   !.halt = Await]
    ELSE c

(* a _handle_syn_received_state without the ACK test *)
HandleSynReceivedAnyFlags(c, id, p) ==
    [c EXCEPT !.tcb[id].state = "ESTABLISHED",
              !.io[id].readers = @ + 1,
              !.tasks = @ \cup {Task("reader_start", id, 1, NoPkt)}]

HandleSynReceived(c, id, p) ==
    IF HasFlag(p.flags, ACK)
    THEN [c EXCEPT !.tcb[id].state = "ESTABLISHED",
                   !.io[id].readers = @ + 1,
                   !.tasks = @ \cup {Task("reader_start", id, 1, NoPkt)}]
    ELSE c

(* susp: whether proxy_writer.drain() has to wait for the host to read *)
HandleEstablished(c, id, p, susp) ==
    IF HasFlag(p.flags, FIN)
    THEN Respond([c EXCEPT !.tcb[id].state = "CLOSE_WAIT"], id, ACK, 0)
    ELSE IF HasFlag(p.flags, ACK)
    THEN LET c1 == [c EXCEPT !.tcb[id].rcv_nxt = Plus(p.seq, p.len)]
             c2 == Respond(c1, id, ACK, 0)
         IN  IF c2.halt # NoExc THEN c2
             ELSE IF p.len > 0 /\ c2.tcb[id].proxy
             THEN LET c3 == [c2 EXCEPT !.io[id].written = Append(@, p.len)]
                  IN  IF susp
                      THEN [c3 EXCEPT !.tasks =
                                          @ \cup {Task("drain", id,
                                                       FreshN(@, "drain", id, p),
                                                       p)},
                                      !.halt = Await]
                      ELSE c3
             ELSE c2
    ELSE c

HandleCloseWait(c, id) ==
    Respond([c EXCEPT !.tcb[id].state = "LAST_ACK"], id, FIN + ACK, 0)

HandleLastAck(c, id, p) ==
    IF HasFlag(p.flags, ACK)
    THEN LET c1 == [c EXCEPT !.tcb[id].state = "CLOSED"]
             key == TcbKey(c1.tcb[id])
         IN  IF c1.table[key] = 0
             THEN Raise(c1, "KeyError")
             ELSE [c1 EXCEPT !.table[key] = 0]
    ELSE c

(* the handlers dictionary of _do_handle, looked up by the current state *)
Dispatch(c, id, p) ==
    CASE c.tcb[id].state = "LISTEN" -> HandleListen(c, id, p)
      [] c.tcb[id].state = "SYN_RECEIVED" -> HandleSynReceived(c, id, p)
      [] c.tcb[id].state = "CLOSE_WAIT" -> HandleCloseWait(c, id)
      [] c.tcb[id].state = "LAST_ACK" -> HandleLastAck(c, id, p)
      [] OTHER -> c

DoHandle(c, p, susp) ==
    LET g == GetTcb(c, p) IN
    IF g.id = 0 THEN g.c
    ELSE LET c1 == IF g.c.tcb[g.id].state = "ESTABLISHED"
                   THEN HandleEstablished(g.c, g.id, p, susp)
                   ELSE g.c
         IN  IF c1.halt # NoExc THEN c1 ELSE Dispatch(c1, g.id, p)

(* the except branch of _proxy_reader_task *)
ReaderExcept(c, id, name) ==
    LET c1 == Respond(c, id, FIN + ACK, 0) IN
    IF c1.halt # NoExc THEN c1
    ELSE Raise([c1 EXCEPT !.tcb[id].state = "LAST_ACK"], name)

(* the loop head of _proxy_reader_task, up to the await of read() *)
ReaderLoop(c, id) ==
    IF c.tcb[id].state # "ESTABLISHED" THEN c
    ELSE IF ~c.tcb[id].proxy THEN ReaderExcept(c, id, "AttributeError")
    ELSE [c EXCEPT !.tasks = @ \cup {Task("read", id, 1, NoPkt)},
                   !.halt = Await]

ReaderData(c, id, len) ==
    LET c1 == Respond(c, id, ACK + PSH, len) IN
    IF c1.halt # NoExc THEN ReaderExcept(c, id, c1.halt)
    ELSE ReaderLoop([c1 EXCEPT !.tcb[id].snd_nxt = Plus(@, len)], id)

ReaderEof(c, id) ==
    LET c1 == Respond(c, id, FIN + ACK, 0) IN
    IF c1.halt # NoExc THEN ReaderExcept(c, id, c1.halt)
    ELSE [c1 EXCEPT !.tcb[id].state = "LAST_ACK"]

(* open_connection raises: nothing in _handle_listen_state catches it *)
ListenRefused(c, id) == Raise(c, "ConnectionRefusedError")

(* drain() raises: nothing in _handle_established_state catches it *)
DrainFailed(c, id) == Raise(c, "ConnectionResetError")

ReaderError(c, id) == ReaderExcept(c, id, "ConnectionResetError")

(* the rest of _do_handle once drain() has returned *)
DrainReturned(c, id, p) == Dispatch(c, id, p)

(* the rest of _handle_listen_state once open_connection has returned *)
ListenConnected(c, id) ==
    Respond([c EXCEPT !.tcb[id].proxy = TRUE], id, ACK + SYN, 0)

---------------------------------------------------------------------------
(* The event loop *)

Without(t) == [Ctx EXCEPT !.tasks = @ \ {t}]

(* callbacks already in the loop's ready queue run before I/O completions *)
NoReady == \A t \in tasks : t.kind # "reader_start"

Init ==
    /\ tcb = <<>>
    /\ table = [k \in Keys |-> 0]
    /\ out = <<>>
    /\ tasks = {}
    /\ io = <<>>
    /\ exc = NoExc
    /\ npkts = 0
    /\ nreads = 0
    /\ rdr = Idle
    /\ wire = Idle
    /\ mapper = Idle
    /\ run = Idle
    /\ store = Idle

HandlePacket(p, susp) ==
    /\ npkts < MaxPackets
    /\ npkts' = npkts + 1
    /\ Commit(DoHandle(Ctx, p, susp))
    /\ UNCHANGED <<nreads, rdr>>

ConnectDone(t) ==
    /\ t.kind = "connect"
    /\ NoReady
    /\ Commit(ListenConnected(Without(t), t.tcb))
    /\ UNCHANGED <<npkts, nreads, rdr>>

ConnectFail(t) ==
    /\ t.kind = "connect"
    /\ NoReady
    /\ Commit(ListenRefused(Without(t), t.tcb))
    /\ UNCHANGED <<npkts, nreads, rdr>>

ReaderStart(t) ==
    /\ t.kind = "reader_start"
    /\ Commit(ReaderLoop(Without(t), t.tcb))
    /\ UNCHANGED <<npkts, nreads, rdr>>

ReadData(t, len) ==
    /\ t.kind = "read"
    /\ NoReady
    /\ nreads < MaxReads
    /\ nreads' = nreads + 1
    /\ Commit(ReaderData(Without(t), t.tcb, len))
    /\ UNCHANGED <<npkts, rdr>>

ReadEof(t) ==
    /\ t.kind = "read"
    /\ NoReady
    /\ Commit(ReaderEof(Without(t), t.tcb))
    /\ UNCHANGED <<npkts, nreads, rdr>>

ReadError(t) ==
    /\ t.kind = "read"
    /\ NoReady
    /\ Commit(ReaderError(Without(t), t.tcb))
    /\ UNCHANGED <<npkts, nreads, rdr>>

DrainDone(t) ==
    /\ t.kind = "drain"
    /\ NoReady
    /\ Commit(DrainReturned(Without(t), t.tcb, t.pkt))
    /\ UNCHANGED <<npkts, nreads, rdr>>

DrainError(t) ==
    /\ t.kind = "drain"
    /\ NoReady
    /\ Commit(DrainFailed(Without(t), t.tcb))
    /\ UNCHANGED <<npkts, nreads, rdr>>

Next ==
    \/ \E p \in Packets, susp \in BOOLEAN : HandlePacket(p, susp)
    \/ \E t \in tasks : ConnectDone(t)
    \/ \E t \in tasks : ConnectFail(t)
    \/ \E t \in tasks : ReaderStart(t)
    \/ \E t \in tasks, len \in ChunkLens : ReadData(t, len)
    \/ \E t \in tasks : ReadEof(t)
    \/ \E t \in tasks : ReadError(t)
    \/ \E t \in tasks : DrainDone(t)
    \/ \E t \in tasks : DrainError(t)

Spec == Init /\ [][Next]_vars

---------------------------------------------------------------------------
(* Vocabulary of the properties.  A handler is a function of the state it  *)
(* starts in and of its input, so what a step does is stated on every      *)
(* reachable state as a property of the step's result.                     *)

Ids == 1..Len(tcb)

KnownId(p) == table[PacketKey(p)]

(* the result of running _do_handle for p in the current state *)
After(p, susp) == DoHandle(Ctx, p, susp)

SegsOf(id) == SelectSeq(out, LAMBDA s : s.tcb = id)

IsSynAck(s) == s.flags = SYN + ACK

IsFinAck(s) == s.flags = FIN + ACK

ReaderTasks(ts, id) ==
    {t \in ts : t.tcb = id /\ t.kind \in {"reader_start", "read"}}

LastOut == out[Len(out)]

(* the step wrote exactly one segment to the TUN writer, for id *)
Emitted(id) ==
    /\ Len(out') = Len(out) + 1
    /\ SubSeq(out', 1, Len(out)) = out
    /\ LastOut'.tcb = id

---------------------------------------------------------------------------
(* C1: a segment without SYN for a four-tuple that has no TCB changes      *)
(* nothing: no TCB is created, nothing is written to the TUN writer, no    *)
(* host connection is dialed, no coroutine is left behind and nothing is   *)
(* raised, whatever the other flags and whatever the state of the stack.   *)
C1_NonSynUnknownDropped ==
    \A p \in Packets, susp \in BOOLEAN :
        (KnownId(p) = 0 /\ ~HasFlag(p.flags, SYN)) => After(p, susp) = Ctx

(* one packet has been handled and the stack holds no TCB *)
C1_Witness ==
    /\ npkts = 1
    /\ Len(tcb) = 0
    /\ out = <<>>
    /\ tasks = {}

(* C2: a SYN for a four-tuple without TCB allocates a TCB with irs = seq,  *)
(* rcv_nxt = seq + 1, iss = 1, snd_nxt = 1, snd_una = 0 and dials          *)
(* 127.0.0.1 at the segment's destination port; once the connection is     *)
(* open exactly one SYN+ACK with seq = 1 and ack = seq + 1 is emitted,     *)
(* leaving snd_nxt = 2 and the state SYN_RECEIVED.                         *)
C2_SynOpensAndAnswers ==
    [][/\ \A p \in Packets, susp \in BOOLEAN :
            (KnownId(p) = 0 /\ HasFlag(p.flags, SYN) /\ HandlePacket(p, susp))
            => LET id == Len(tcb) + 1 IN
               /\ Len(tcb') = id
               /\ table'[PacketKey(p)] = id
               /\ tcb'[id].irs = p.seq
               /\ tcb'[id].rcv_nxt = Plus(p.seq, 1)
               /\ tcb'[id].iss = Num(1)
               /\ tcb'[id].snd_nxt = Num(1)
               /\ tcb'[id].snd_una = Num(0)
               /\ io'[id].dialed = <<[host |-> "127.0.0.1", port |-> p.dport]>>
               /\ out' = out
       /\ \A t \in tasks :
            ConnectDone(t)
            => /\ Emitted(t.tcb)
               /\ IsSynAck(LastOut')
               /\ LastOut'.seq = Num(1)
               /\ LastOut'.ack = Plus(tcb[t.tcb].irs, 1)
               /\ Len(SelectSeq(out', LAMBDA s : s.tcb = t.tcb /\ IsSynAck(s))) = 1
               /\ tcb'[t.tcb].snd_nxt = Num(2)
               /\ tcb'[t.tcb].state = "SYN_RECEIVED"]_vars

(* C3: in SYN_RECEIVED a segment with ACK moves the TCB to ESTABLISHED,    *)
(* changing no other field, and spawns exactly one host-reader task for    *)
(* it, the only one the TCB ever gets; a segment without ACK changes       *)
(* nothing and spawns nothing.                                             *)
C3_SynReceivedAck ==
    \A p \in Packets, susp \in BOOLEAN :
        (KnownId(p) # 0 /\ tcb[KnownId(p)].state = "SYN_RECEIVED")
        => LET id == KnownId(p)
               c == After(p, susp)
           IN  IF HasFlag(p.flags, ACK)
               THEN /\ c.tcb = [tcb EXCEPT ![id].state = "ESTABLISHED"]
                    /\ ReaderTasks(tasks, id) = {}
                    /\ Cardinality(ReaderTasks(c.tasks, id)) = 1
                    /\ tasks \subseteq c.tasks
                    /\ Cardinality(c.tasks \ tasks) = 1
                    /\ io[id].readers = 0
                    /\ c.io[id].readers = 1
                    /\ c.out = out
               ELSE c = Ctx

(* a SYN and then an ACK have been handled for one four-tuple *)
C3_Witness ==
    /\ npkts = 2
    /\ Len(tcb) = 1
    /\ tcb[1].state = "ESTABLISHED"
    /\ io[1].readers = 1
    /\ Cardinality(ReaderTasks(tasks, 1)) = 1

(* C4: in ESTABLISHED a segment with ACK, without FIN and with payload     *)
(* sets rcv_nxt = seq + len(payload), emits exactly one bare ACK carrying  *)
(* the new rcv_nxt, writes the payload to the host stream and leaves the   *)
(* state ESTABLISHED: the rest of the handling, once the flush of the      *)
(* write has returned, changes no state either.                            *)
C4_EstablishedData ==
    [][/\ \A p \in Packets, susp \in BOOLEAN :
            (/\ KnownId(p) # 0
             /\ tcb[KnownId(p)].state = "ESTABLISHED"
             /\ HasFlag(p.flags, ACK)
             /\ ~HasFlag(p.flags, FIN)
             /\ p.len > 0
             /\ HandlePacket(p, susp))
            => LET id == KnownId(p) IN
               /\ tcb'[id].rcv_nxt = Plus(p.seq, p.len)
               /\ Emitted(id)
               /\ LastOut'.flags = ACK
               /\ LastOut'.len = 0
               /\ LastOut'.ack = Plus(p.seq, p.len)
               /\ io'[id].written = Append(io[id].written, p.len)
               /\ tcb'[id].state = "ESTABLISHED"
       /\ \A t \in tasks :
            DrainDone(t) => tcb'[t.tcb].state = tcb[t.tcb].state]_vars

(* C5: when the handling of a FIN segment in ESTABLISHED is complete, the  *)
(* only segment emitted for it is an ACK and the state is CLOSE_WAIT.      *)
C5_FinLeavesCloseWait ==
    [][\A p \in Packets, susp \in BOOLEAN :
          (/\ KnownId(p) # 0
           /\ tcb[KnownId(p)].state = "ESTABLISHED"
           /\ HasFlag(p.flags, FIN)
           /\ HandlePacket(p, susp))
          => LET id == KnownId(p) IN
             /\ Emitted(id)
             /\ LastOut'.flags = ACK
             /\ tcb'[id].state = "CLOSE_WAIT"]_vars

(* C6: in LAST_ACK a segment with ACK removes the TCB from the table in    *)
(* the same run (state CLOSED), so that its four-tuple is unknown again,   *)
(* and a segment without ACK leaves it in LAST_ACK; the deletion never     *)
(* fails: no run of a coroutine ends with KeyError.                        *)
C6_LastAckRemoves ==
    [][/\ \A p \in Packets, susp \in BOOLEAN :
            (/\ KnownId(p) # 0
             /\ tcb[KnownId(p)].state = "LAST_ACK"
             /\ HandlePacket(p, susp))
            => LET id == KnownId(p) IN
               IF HasFlag(p.flags, ACK)
               THEN /\ tcb'[id].state = "CLOSED"
                    /\ table' = [table EXCEPT ![PacketKey(p)] = 0]
               ELSE tcb' = tcb /\ table' = table
       /\ exc' # "KeyError"]_vars

(* C7: when the host-reader of an ESTABLISHED TCB reads EOF it emits       *)
(* exactly one FIN+ACK, snd_nxt advances by 1, the TCB moves to LAST_ACK   *)
(* and the task ends.                                                      *)
C7_ReaderEof ==
    [][\A t \in tasks :
          (tcb[t.tcb].state = "ESTABLISHED" /\ ReadEof(t))
          => /\ Emitted(t.tcb)
             /\ IsFinAck(LastOut')
             /\ LastOut'.seq = tcb[t.tcb].snd_nxt
             /\ tcb'[t.tcb].snd_nxt = Plus(tcb[t.tcb].snd_nxt, 1)
             /\ tcb'[t.tcb].state = "LAST_ACK"
             /\ ReaderTasks(tasks', t.tcb) = {}]_vars

(* C8: any error of a TCB's host-side stream (connect refused, read error, *)
(* flush error) makes the stack emit FIN+ACK for that TCB and move it to   *)
(* LAST_ACK, and leaves every other TCB unchanged.                         *)
C8_HostErrorCloses ==
    [][\A t \in tasks :
          (ConnectFail(t) \/ ReadError(t) \/ DrainError(t))
          => /\ Emitted(t.tcb)
             /\ IsFinAck(LastOut')
             /\ tcb'[t.tcb].state = "LAST_ACK"
             /\ \A id \in Ids \ {t.tcb} : tcb'[id] = tcb[id]]_vars

(* C9: within a TCB the seq fields of the emitted segments never decrease, *)
(* and none exceeds the TCB's snd_nxt.                                     *)
C9_SeqMonotonic ==
    /\ \A i, j \in 1..Len(out) :
          (i < j /\ out[i].tcb = out[j].tcb) => Leq(out[i].seq, out[j].seq)
    /\ \A i \in 1..Len(out) : Leq(out[i].seq, tcb[out[i].tcb].snd_nxt)

(* a TCB has emitted its SYN+ACK, a data segment and a FIN+ACK, with       *)
(* growing seq                                                             *)
C9_Witness ==
    \E id \in Ids :
        LET segs == SegsOf(id) IN
        /\ Len(segs) >= 3
        /\ IsSynAck(segs[1])
        /\ segs[2].flags = ACK + PSH
        /\ IsFinAck(segs[Len(segs)])
        /\ segs[1].seq # segs[2].seq
        /\ segs[2].seq # segs[Len(segs)].seq

(* C10: the table never holds two TCBs for one four-tuple, and a segment   *)
(* for a four-tuple that has a TCB creates no TCB, does not replace the    *)
(* entry, does not re-initialise iss, irs or snd_una, does not lower       *)
(* snd_nxt and dials no host connection; every TCB dials at most once.     *)
C10_KeyUnique ==
    /\ \A k \in Keys : table[k] # 0 => TcbKey(tcb[table[k]]) = k
    /\ \A id \in Ids : Len(io[id].dialed) <= 1
    /\ \A p \in Packets, susp \in BOOLEAN :
          KnownId(p) # 0
          => LET id == KnownId(p)
                 c == After(p, susp)
             IN  /\ Len(c.tcb) = Len(tcb)
                 /\ c.table[PacketKey(p)] \in {id, 0}
                 /\ c.tcb[id].iss = tcb[id].iss
                 /\ c.tcb[id].irs = tcb[id].irs
                 /\ c.tcb[id].snd_una = tcb[id].snd_una
                 /\ Leq(tcb[id].snd_nxt, c.tcb[id].snd_nxt)
                 /\ c.io[id].dialed = io[id].dialed

(* a second packet has been handled for a TCB whose connect is pending,    *)
(* while the other four-tuple has no TCB                                   *)
C10_Witness ==
    /\ npkts = 2
    /\ Len(tcb) = 1
    /\ tcb[1].state = "SYN_RECEIVED"
    /\ \E t \in tasks : t.kind = "connect" /\ t.tcb = 1
    /\ Len(io[1].dialed) = 1

(* C11: sequence arithmetic is modulo 2^32: rcv_nxt and snd_nxt of every   *)
(* TCB stay in 0..2^32-1, every emitted seq and ack field fits 4 bytes,    *)
(* and no run ends because a response could not be built.                  *)
C11_SeqArithmeticModular ==
    /\ \A id \in Ids : Fits4(tcb[id].rcv_nxt) /\ Fits4(tcb[id].snd_nxt)
    /\ \A i \in 1..Len(out) : Fits4(out[i].seq) /\ Fits4(out[i].ack)
    /\ exc # "OverflowError"

(* C12: the packets of one four-tuple are handled serially: while the      *)
(* handler of an earlier packet of a TCB is suspended (awaiting the host   *)
(* connect or the flush of a host write), handling a later packet of that  *)
(* four-tuple neither changes the TCB nor emits anything.                  *)
C12_PacketsSerialPerTcb ==
    [][\A p \in Packets, susp \in BOOLEAN :
          (/\ KnownId(p) # 0
           /\ \E t \in tasks :
                 t.tcb = KnownId(p) /\ t.kind \in {"connect", "drain"}
           /\ HandlePacket(p, susp))
          => /\ tcb'[KnownId(p)] = tcb[KnownId(p)]
             /\ out' = out
             /\ table' = table]_vars

---------------------------------------------------------------------------
(* Packet formats: pbcr/networking/utils.py, ip.py and TCPInfo.  A buffer  *)
(* is a sequence of bytes; Python's 0-based, end-exclusive slices become   *)
(* Slice.                                                                  *)

Min(a, b) == IF a < b THEN a ELSE b

(* data[lo:hi] *)
Slice(data, lo, hi) == SubSeq(data, lo + 1, Min(hi, Len(data)))

(* int.to_bytes(n, 2, "big") for n in 0..65535 *)
U16(n) == <<n \div 256, n % 256>>

(* the four bytes of a sequence number, low half first *)
U32LowFirst(x) == U16(x[2]) \o U16(x[1])

(* int.to_bytes(x, 4, "big") for a sequence number that fits *)
U32(x) == U16(x[1]) \o U16(x[2])

(* int.from_bytes(b, "big") of a slice of at most two bytes *)
FromBytes2(b) ==
    IF Len(b) = 0 THEN 0
    ELSE IF Len(b) = 1 THEN b[1]
    ELSE b[1] * 256 + b[2]

(* int.from_bytes(b, "big") of a slice of at most four bytes *)
FromBytes4(b) ==
    IF Len(b) <= 2 THEN <<0, FromBytes2(b)>>
    ELSE <<FromBytes2(SubSeq(b, 1, Len(b) - 2)),
           FromBytes2(SubSeq(b, Len(b) - 1, Len(b)))>>

(* the loop of checksum: s += (data[i] << 8) + data[i+1], data padded with *)
(* a zero byte when its length is odd                                      *)
RECURSIVE SumWords(_, _, _)
SumWords(data, i, s) ==
    IF i > Len(data) THEN s
    ELSE SumWords(data, i + 2,
                  Plus(s, data[i] * 256
                          + (IF i + 1 <= Len(data) THEN data[i + 1] ELSE 0)))

(* the end of checksum: s = (s >> 16) + (s & 0xffff); s += s >> 16;        *)
(* return ~s & 0xffff                                                      *)
FoldCarries(s) ==
    LET s1 == s[1] + s[2]
        s2 == s1 + (s1 \div Half)
    IN  (Half - 1) - (s2 % Half)

checksum(data) == FoldCarries(SumWords(data, 1, Num(0)))

(* w + w + ... + w, n times, for a 16-bit word w and n < 2^17: what the    *)
(* loop of checksum has summed after n words w                             *)
Times(w, n) ==
    LET a == w * (n \div 256)
        b == w * (n % 256)
    IN  Plus(<<a \div 256, (a % 256) * 256>>, b)

(* checksum of the buffer made of n words 0xffff followed by data *)
checksumAfterOnes(n, data) ==
    FoldCarries(SumWords(data, 1, Times(Half - 1, n)))

(* data with data[slot:slot+2] = bytes2 *)
Place(data, slot, bytes2) ==
    [i \in 1..Len(data) |->
        IF i = slot + 1 THEN bytes2[1]
        ELSE IF i = slot + 2 THEN bytes2[2]
        ELSE data[i]]

(* IPInfo.build: the header, or the exception int.to_bytes raises *)
IPBuild(h, datalen) ==
    LET total_len == 20 + datalen IN
    IF total_len >= Half
    THEN [err |-> "OverflowError", data |-> <<>>]
    ELSE LET iph == <<h.ipver * 16 + 5, 0>> \o U16(total_len)
                    \o <<0, 1>> \o U16(0) \o <<255, h.proto>> \o U16(0)
                    \o h.src \o h.dst
         IN  [err |-> NoExc, data |-> Place(iph, 10, U16(checksum(iph)))]

(* IPInfo.parse: the header and the rest of the data, or the exception *)
IPParse(data) ==
    IF Len(data) = 0
    THEN [err |-> "IndexError", hdr |-> <<>>, rest |-> <<>>]
    ELSE LET ihl == (data[1] % 16) * 4
             cksum == checksum(Slice(data, 0, ihl))
         IN  IF cksum \notin {0, Half - 1}
             THEN [err |-> "ValueError", hdr |-> <<>>, rest |-> <<>>]
             ELSE IF Len(data) < 10
             THEN [err |-> "IndexError", hdr |-> <<>>, rest |-> <<>>]
             ELSE [err |-> NoExc,
                   hdr |-> [ipver |-> data[1] \div 16,
                            src |-> Slice(data, 12, 16),
                            dst |-> Slice(data, 16, 20),
                            proto |-> data[10]],
                   rest |-> Slice(data, ihl, Len(data))]

(* the pseudo header TCPInfo.parse and TCPInfo.build put before a segment *)
PseudoHeader(src, dst, len) == src \o dst \o <<0, 6>> \o U16(len)

(* TCPInfo.build: the segment, or the exception int.to_bytes raises *)
TCPBuild(t, src_ip, dst_ip, data) ==
    IF ~Fits4(t.seq) \/ ~Fits4(t.ack) \/ 20 + Len(data) >= Half
    THEN [err |-> "OverflowError", data |-> <<>>]
    ELSE LET tcph == U16(t.sport) \o U16(t.dport) \o U32(t.seq) \o U32(t.ack)
                     \o <<5 * 16, t.flags>> \o U16(Window) \o U16(0) \o U16(0)
                     \o data
             chck == checksum(PseudoHeader(src_ip, dst_ip, Len(tcph)) \o tcph)
         IN  [err |-> NoExc, data |-> Place(tcph, 16, U16(chck))]

(* TCPInfo.parse: the header and the payload, or the exception *)
TCPParse(iph, data) ==
    IF checksum(PseudoHeader(iph.src, iph.dst, Len(data)) \o data) # 0
    THEN [err |-> "ValueError", hdr |-> <<>>, rest |-> <<>>]
    ELSE IF Len(data) < 14
    THEN [err |-> "IndexError", hdr |-> <<>>, rest |-> <<>>]
    ELSE [err |-> NoExc,
          hdr |-> [sport |-> FromBytes2(Slice(data, 0, 2)),
                   dport |-> FromBytes2(Slice(data, 2, 4)),
                   seq |-> FromBytes4(Slice(data, 4, 8)),
                   ack |-> FromBytes4(Slice(data, 8, 12)),
                   flags |-> data[14]],
          rest |-> Slice(data, 20, Len(data))]

---------------------------------------------------------------------------
(* run._reader: the thread that reads frames from the TUN device, parses   *)
(* them and hands TCP segments to the stack.  The stack's event loop runs  *)
(* in its own thread (TCPStack.start) and goes on whatever the reader does.*)

MaxFrames == 4

AddrBytes ==
    [a \in ContainerIps \cup RemoteIps |->
        CASE a = "192.168.64.2" -> <<192, 168, 64, 2>>
          [] a = "10.0.0.1" -> <<10, 0, 0, 1>>
          [] a = "10.0.0.2" -> <<10, 0, 0, 2>>]

AddrName(bytes) ==
    CHOOSE a \in ContainerIps \cup RemoteIps : AddrBytes[a] = bytes

(* the payload of a segment of the model: len bytes "A" *)
Payload(len) == [i \in 1..len |-> 65]

(* the frame the container's kernel puts on the TUN device for segment p, *)
(* carrying protocol number proto                                          *)
Frame(p, proto) ==
    LET src == AddrBytes[p.src]
        dst == AddrBytes[p.dst]
        seg == TCPBuild([sport |-> p.sport, dport |-> p.dport, seq |-> p.seq,
                         ack |-> Num(0), flags |-> p.flags],
                        src, dst, Payload(p.len)).data
    IN  IPBuild([ipver |-> 4, src |-> src, dst |-> dst, proto |-> proto],
                Len(seg)).data \o seg

(* the segments the reader is fed: a SYN, an ACK, an ACK with payload and  *)
(* a FIN+ACK of the first flow                                             *)
FramedPackets ==
    {p \in Packets : /\ p.dst = "10.0.0.1"
                     /\ p.seq = Num(7)
                     /\ <<p.flags, p.len>> \in
                            {<<SYN, 0>>, <<ACK, 0>>, <<ACK, 1>>, <<FIN + ACK, 0>>}}

GoodFrames == {Frame(p, 6) : p \in FramedPackets}

(* a datagram of another protocol (UDP): valid, and not for the stack *)
OtherFrames == {Frame(p, 17) : p \in {q \in FramedPackets : q.flags = SYN}}

(* frames that do not parse: a wrong IP header checksum, a wrong TCP       *)
(* checksum, a frame cut inside the IP header, and an empty read           *)
BadFrames ==
    UNION {{Place(f, 10, <<0, 0>>), Place(f, 36, <<0, 0>>), Slice(f, 0, 10)}
           : f \in {Frame(p, 6) : p \in {q \in FramedPackets : q.flags = SYN}}}
    \cup {<<>>}

(* frames that are not IPv4 with a full header: the SYN under the version  *)
(* nibble 6 with the header checksum of IPInfo.build, the SYN with the     *)
(* header length nibble set to 0, and an IPv6 packet (first byte 0x60,     *)
(* next header TCP, source and destination addresses ::1)                  *)
ForeignFrames ==
    UNION {{LET src == AddrBytes[p.src]
                dst == AddrBytes[p.dst]
                seg == TCPBuild([sport |-> p.sport, dport |-> p.dport,
                                 seq |-> p.seq, ack |-> Num(0),
                                 flags |-> p.flags],
                                src, dst, Payload(p.len)).data
            IN  IPBuild([ipver |-> 6, src |-> src, dst |-> dst, proto |-> 6],
                        Len(seg)).data \o seg,
            [i \in 1..Len(Frame(p, 6)) |->
                IF i = 1 THEN 4 * 16 ELSE Frame(p, 6)[i]]}
           : p \in {q \in FramedPackets : q.flags = SYN}}
    \cup {<<6 * 16, 0, 0, 0, 0, 0, 6, 64>>
          \o [i \in 1..16 |-> IF i = 16 THEN 1 ELSE 0]
          \o [i \in 1..16 |-> IF i = 16 THEN 1 ELSE 0]}

Frames == GoodFrames \cup OtherFrames \cup BadFrames \cup ForeignFrames

(* what the body of the loop of _reader makes of one frame: the exception  *)
(* that a parse raises, or the segment for handle_packet (NoPkt if none)   *)
ReadOne(frame) ==
    LET ip == IPParse(frame) IN
    IF ip.err # NoExc THEN [err |-> ip.err, pkt |-> NoPkt]
    ELSE IF ip.hdr.proto # 6 THEN [err |-> NoExc, pkt |-> NoPkt]
    ELSE LET tc == TCPParse(ip.hdr, ip.rest) IN
         IF tc.err # NoExc THEN [err |-> tc.err, pkt |-> NoPkt]
         ELSE [err |-> NoExc,
               pkt |-> [src |-> AddrName(ip.hdr.src),
                        dst |-> AddrName(ip.hdr.dst),
                        sport |-> tc.hdr.sport, dport |-> tc.hdr.dport,
                        seq |-> tc.hdr.seq, flags |-> tc.hdr.flags,
                        len |-> Len(tc.rest)]]

ReaderInit ==
    /\ tcb = <<>>
    /\ table = [k \in Keys |-> 0]
    /\ out = <<>>
    /\ tasks = {}
    /\ io = <<>>
    /\ exc = NoExc
    /\ npkts = 0
    /\ nreads = 0
    /\ rdr = [alive |-> TRUE, exc |-> NoExc, frames |-> 0]
    /\ wire = Idle
    /\ mapper = Idle
    /\ run = Idle
    /\ store = Idle

(* one turn of the while loop of _reader *)
ReadFrame(frame, susp) ==
    /\ rdr.alive
    /\ rdr.frames < MaxFrames
    /\ LET r == ReadOne(frame) IN
       IF r.err # NoExc
       THEN /\ rdr' = [alive |-> FALSE, exc |-> r.err, frames |-> rdr.frames + 1]
            /\ UNCHANGED <<tcb, table, out, tasks, io, exc, npkts, nreads,
                           wire, mapper, run, store>>
       ELSE /\ rdr' = [rdr EXCEPT !.frames = @ + 1]
            /\ IF r.pkt = NoPkt
               THEN UNCHANGED <<tcb, table, out, tasks, io, exc, npkts,
                                nreads, wire, mapper, run, store>>
               ELSE /\ Commit(DoHandle(Ctx, r.pkt, susp))
                    /\ npkts' = npkts + 1
                    /\ UNCHANGED nreads

ReaderNext ==
    \/ \E f \in Frames, susp \in BOOLEAN : ReadFrame(f, susp)
    \/ \E t \in tasks : ConnectDone(t)
    \/ \E t \in tasks : ConnectFail(t)
    \/ \E t \in tasks : ReaderStart(t)
    \/ \E t \in tasks, len \in ChunkLens : ReadData(t, len)
    \/ \E t \in tasks : ReadEof(t)
    \/ \E t \in tasks : ReadError(t)
    \/ \E t \in tasks : DrainDone(t)
    \/ \E t \in tasks : DrainError(t)

ReaderSpec == ReaderInit /\ [][ReaderNext]_vars

(* C13: a frame that does not parse (wrong IP checksum, wrong TCP          *)
(* checksum, cut header) is dropped and the reader goes on: the turn of    *)
(* the loop that reads it leaves the reader alive, so that the frames      *)
(* after it are still read, and changes nothing in the stack.              *)
C13_BadFrameDropped ==
    [][\A f \in Frames, susp \in BOOLEAN :
          (ReadOne(f).err # NoExc /\ ReadFrame(f, susp))
          => /\ rdr'.alive
             /\ rdr'.exc = NoExc
             /\ UNCHANGED <<tcb, table, out, tasks, io>>]_vars

(* C36: IP parsing accepts only IPv4 packets with IHL >= 5: a frame whose  *)
(* version nibble is not 4 or whose IHL is below 5 is not returned as a    *)
(* parsed header, and the turn of the reader that reads it hands nothing   *)
(* to the TCP stack.                                                       *)
C36_OnlyIPv4Accepted ==
    [][\A f \in Frames, susp \in BOOLEAN :
          (/\ Len(f) > 0
           /\ (f[1] \div 16 # 4 \/ f[1] % 16 < 5)
           /\ ReadFrame(f, susp))
          => /\ IPParse(f).err # NoExc
             /\ UNCHANGED <<tcb, table, out, tasks, io, npkts>>]_vars

---------------------------------------------------------------------------
(* checksum, IPInfo and TCPInfo as functions: a buffer or a pair of        *)
(* headers is chosen, and an action applies the code to it.                *)

MaxBuffer == 5
MaxPayload == 2

(* the number of leading words 0xffff of the long buffers: 131076 bytes,   *)
(* enough for the sum of the loop of checksum to pass 2^32                 *)
ManyOnes == 65538

BufferBytes == {0, 1, 255}

(* buffers: ones words 0xffff followed by data, and a 16-bit-aligned slot  *)
(* of two bytes inside data                                                *)
BufferInputs ==
    {[op |-> "buffer", ones |-> n, data |-> d, slot |-> sl] :
        n \in {0, ManyOnes},
        d \in UNION {[1..len -> BufferBytes] : len \in 2..MaxBuffer},
        sl \in {0, 2}}

HeaderAddrs == {<<192, 168, 64, 2>>, <<10, 0, 0, 1>>, <<255, 255, 255, 255>>}
HeaderProtos == {0, 6, 255}
HeaderPorts == {0, 1234, Half - 1}
HeaderSeqs == {Num(0), Num(7), MaxU32}
HeaderFlags == {0, SYN + ACK, 255}
Payloads == UNION {[1..len -> {65, 255}] : len \in 0..MaxPayload}

HeaderInputs ==
    {[op |-> "headers",
      h |-> [ipver |-> 4, src |-> a, dst |-> <<10, 0, 0, 1>>, proto |-> pr],
      t |-> [sport |-> sp, dport |-> 80, seq |-> sq, ack |-> ak, flags |-> fl],
      payload |-> pl] :
        a \in HeaderAddrs, pr \in HeaderProtos, sp \in HeaderPorts,
        sq \in HeaderSeqs, ak \in HeaderSeqs, fl \in HeaderFlags,
        pl \in Payloads}

WireInit ==
    /\ wire \in {b \in BufferInputs : b.slot + 2 <= Len(b.data)}
                \cup HeaderInputs
    /\ tcb = <<>>
    /\ table = [k \in Keys |-> 0]
    /\ out = <<>>
    /\ tasks = {}
    /\ io = <<>>
    /\ exc = NoExc
    /\ npkts = 0
    /\ nreads = 0
    /\ rdr = Idle
    /\ mapper = Idle
    /\ run = Idle
    /\ store = Idle

NotWire ==
    <<tcb, table, out, tasks, io, exc, npkts, nreads, rdr, mapper, run, store>>

(* zero the slot, compute the checksum, write it big-endian at the slot *)
PlaceChecksum ==
    /\ wire.op = "buffer"
    /\ LET zeroed == Place(wire.data, wire.slot, U16(0))
           chck == checksumAfterOnes(wire.ones, zeroed)
       IN  wire' = [wire EXCEPT !.op = "placed",
                                !.data = Place(zeroed, wire.slot, U16(chck))]
    /\ UNCHANGED NotWire

(* IPInfo.build(len(segment)) *)
BuildIp ==
    /\ wire.op = "headers"
    /\ wire' = [op |-> "ipbuilt",
                data |-> IPBuild(wire.h, 20 + Len(wire.payload)).data]
    /\ UNCHANGED NotWire

(* IPInfo.parse, then TCPInfo.parse, of IPInfo.build + TCPInfo.build *)
RoundTrip ==
    /\ wire.op = "headers"
    /\ LET seg == TCPBuild(wire.t, wire.h.src, wire.h.dst, wire.payload)
           iph == IPBuild(wire.h, Len(seg.data))
           ip == IPParse(iph.data \o seg.data)
           tc == IF ip.err = NoExc THEN TCPParse(ip.hdr, ip.rest) ELSE ip
       IN  wire' = [op |-> "parsed", h |-> wire.h, t |-> wire.t,
                    payload |-> wire.payload,
                    built |-> seg.err = NoExc /\ iph.err = NoExc,
                    ip |-> ip, tcp |-> tc]
    /\ UNCHANGED NotWire

WireNext == PlaceChecksum \/ BuildIp \/ RoundTrip

WireSpec == WireInit /\ [][WireNext]_vars

C15_HeaderRoundTrip ==
    wire.op = "parsed"
    => /\ wire.built
       /\ wire.ip.err = NoExc
       /\ wire.ip.hdr = wire.h
       /\ wire.tcp.err = NoExc
       /\ wire.tcp.hdr = wire.t
       /\ wire.tcp.rest = wire.payload

(* a frame with the largest sequence number, every flag set and a payload  *)
(* of odd length has been built and parsed                                 *)
C15_Witness ==
    /\ wire.op = "parsed"
    /\ wire.t.seq = MaxU32
    /\ wire.t.flags = 255
    /\ Len(wire.payload) = 1
    /\ wire.tcp.rest = wire.payload

---------------------------------------------------------------------------
(* _UIDMapper (pbcr/run.py): the arguments of newuidmap and newgidmap.     *)
(* Ids, bases and the invoker's id are strings of decimal digits, as read  *)
(* from /etc/passwd, /etc/group, /etc/subuid and /etc/subgid; a string is  *)
(* the sequence of its digits.                                             *)

(* the variables of the TCP stack and of the TUN reader, not running *)
StackIdle ==
    /\ tcb = <<>>
    /\ table = [k \in Keys |-> 0]
    /\ out = <<>>
    /\ tasks = {}
    /\ io = <<>>
    /\ exc = NoExc
    /\ npkts = 0
    /\ nreads = 0
    /\ rdr = Idle

StackVars == <<tcb, table, out, tasks, io, exc, npkts, nreads, rdr>>

(* str(n) *)
RECURSIVE Str(_)
Str(n) == IF n < 10 THEN <<n>> ELSE Str(n \div 10) \o <<n % 10>>

(* int(u) *)
RECURSIVE IntOf(_)
IntOf(u) ==
    IF Len(u) = 0 THEN 0
    ELSE IntOf(SubSeq(u, 1, Len(u) - 1)) * 10 + u[Len(u)]

MinOf(S) == CHOOSE x \in S : \A y \in S : x <= y
MaxOf(S) == CHOOSE x \in S : \A y \in S : y <= x

(* a _format_args that keeps root among the ids it maps from the base *)
FormatArgsKeepingRoot(ids, start, root_map) ==
    LET args == <<Str(0), root_map, Str(1)>> IN
    IF ids # {}
    THEN LET min_id == MinOf({IntOf(u) : u \in ids})
             max_id == MaxOf({IntOf(u) : u \in ids})
         IN  args \o <<Str(min_id), start, Str(max_id - min_id + 1)>>
    ELSE args

(* _UIDMapper._format_args, root_map being self._root_map *)
FormatArgs(ids, start, root_map) ==
    LET args == <<Str(0), root_map, Str(1)>>
        others == ids \ {Str(0)}
    IN  IF others # {}
        THEN LET min_id == MinOf({IntOf(u) : u \in others})
                 max_id == MaxOf({IntOf(u) : u \in others})
             IN  args \o <<Str(min_id), start, Str(max_id - min_id + 1)>>
        ELSE args

IdValues == {0, 1, 2, 1000, 65534}
SubBases == {100000, 165536}
InvokerIds == {0, 1000}

MapperInit ==
    /\ mapper \in [op : {"ids"},
                   uids : SUBSET {Str(n) : n \in IdValues},
                   subuid : {Str(n) : n \in SubBases},
                   subgid : {Str(n) : n \in SubBases},
                   root_map : {Str(n) : n \in InvokerIds},
                   args : {<<>>}]
    /\ StackIdle
    /\ wire = Idle
    /\ run = Idle
    /\ store = Idle

(* _UIDMapper.newuidmap: the arguments after the pid *)
NewUidMap ==
    /\ mapper.op = "ids"
    /\ mapper' = [mapper EXCEPT
                     !.op = "newuidmap",
                     !.args = FormatArgs(mapper.uids, mapper.subuid,
                                         mapper.root_map)]
    /\ UNCHANGED <<StackVars, wire, run, store>>

(* _UIDMapper.newgidmap: the arguments after the pid *)
NewGidMap ==
    /\ mapper.op = "ids"
    /\ mapper' = [mapper EXCEPT
                     !.op = "newgidmap",
                     !.args = FormatArgs(mapper.uids, mapper.subgid,
                                         mapper.root_map)]
    /\ UNCHANGED <<StackVars, wire, run, store>>

MapperNext == NewUidMap \/ NewGidMap

MapperSpec == MapperInit /\ [][MapperNext]_vars

(* C16: the arguments start with 0, the invoker's id, 1; without an id     *)
(* other than 0 nothing follows, else exactly one triple follows: the      *)
(* smallest id other than 0, the base, and the largest minus the smallest  *)
(* plus 1.                                                                 *)
C16_MapArgs ==
    mapper.op \in {"newuidmap", "newgidmap"}
    => LET S == {IntOf(u) : u \in mapper.uids} \ {0}
           B == IF mapper.op = "newuidmap" THEN mapper.subuid
                ELSE mapper.subgid
           a == mapper.args
       IN  /\ Len(a) >= 3
           /\ a[1] = <<0>> /\ a[2] = mapper.root_map /\ a[3] = <<1>>
           /\ S = {} => Len(a) = 3
           /\ S # {} =>
                 /\ Len(a) = 6
                 /\ \E lo \in S, hi \in S :
                       /\ \A x \in S : lo <= x /\ x <= hi
                       /\ IntOf(a[4]) = lo
                       /\ a[5] = B
                       /\ IntOf(a[6]) = hi - lo + 1
                       /\ a[4] = Str(lo)
                       /\ a[6] = Str(hi - lo + 1)

(* base 100000, invoker 1000 and ids {0, 1, 1000} have given               *)
(* 0 1000 1 1 100000 1000                                                  *)
C16_Witness ==
    /\ mapper.op = "newuidmap"
    /\ mapper.uids = {<<0>>, <<1>>, <<1, 0, 0, 0>>}
    /\ mapper.args = <<<<0>>, <<1, 0, 0, 0>>, <<1>>,
                       <<1>>, <<1, 0, 0, 0, 0, 0>>, <<1, 0, 0, 0>>>>

(***************************************************************************)
(* The fork barrier and the handshakes of run.  run holds the processes of *)
(* one launch: the parent, the pre-flight child of _get_container_spec,    *)
(* the init child of the main fork and the child get_process_net_fd forks. *)
(* A process is at a statement of its program (pc; 0 before its fork) and, *)
(* inside ForkBarrier.wait, at a phase of Event.wait and Event.clear (ph). *)
(* SIGUSR1 is asynchronous: once sent it is pending (pend) and its handler *)
(* runs in the target between any two steps.                               *)
(***************************************************************************)

Procs == {"parent", "spec_child", "init_child", "net_child"}

(* the process a barrier scope forks: pid of os.fork() *)
ForkOf(b) ==
    CASE b = "spec" -> "spec_child"
      [] b = "main" -> "init_child"
      [] b = "net" -> "net_child"

(* self.other_pid = pid or parent_pid *)
OtherPid(p, b) == IF p = "parent" THEN ForkOf(b) ELSE "parent"

Ins(op, arg) == [op |-> op, arg |-> arg]

(* the statements of each process, in program order *)
Program(p) ==
    CASE p = "parent" ->
            << Ins("handler", "pre"),      \* run.py:161
               Ins("enter", "spec"),       \* run.py:163
               Ins("wait", "spec"),        \* run.py:187
               Ins("map", "spec_uid"),     \* run.py:190
               Ins("map", "spec_gid"),     \* run.py:191
               Ins("signal", "spec"),      \* run.py:193
               Ins("wait", "spec"),        \* run.py:194
               Ins("step", "read_ids"),    \* run.py:196-197
               Ins("exit", "spec"),        \* run.py:199
               Ins("enter", "main"),       \* run.py:249
               Ins("wait", "main"),        \* run.py:265
               Ins("step", "store_pid"),   \* run.py:266-267
               Ins("map", "uid"),          \* run.py:270
               Ins("map", "gid"),          \* run.py:271
               Ins("enter", "net"),        \* processfd.py:132
               Ins("wait", "net"),         \* processfd.py:136
               Ins("step", "recvmsg"),     \* processfd.py:138
               Ins("signal", "net"),       \* processfd.py:145
               Ins("exit", "net"),         \* processfd.py:146
               Ins("signal", "main"),      \* run.py:275
               Ins("step", "reader"),      \* run.py:276-282
               Ins("end", "waitpid") >>    \* run.py:288
      [] p = "spec_child" ->
            << Ins("step", "unshare"),     \* run.py:165-170
               Ins("signal", "spec"),      \* run.py:171
               Ins("wait", "spec"),        \* run.py:172
               Ins("step", "mount"),       \* run.py:173
               Ins("step", "write_ids"),   \* run.py:175-182
               Ins("signal", "spec"),      \* run.py:184
               Ins("exit", "spec"),        \* run.py:185, leaving the scope
               Ins("end", "exit") >>       \* run.py:185
      [] p = "init_child" ->
            << Ins("step", "unshare"),     \* run.py:251-256
               Ins("signal", "main"),      \* run.py:257
               Ins("wait", "main"),        \* run.py:258
               Ins("step", "mount"),       \* run.py:260
               Ins("step", "chroot"),      \* run.py:261
               Ins("end", "execv") >>      \* run.py:262
      [] p = "net_child" ->
            << Ins("step", "tun"),         \* processfd.py:106-108
               Ins("signal", "net"),       \* processfd.py:110
               Ins("step", "sendmsg"),     \* processfd.py:111-114
               Ins("wait", "net"),         \* processfd.py:115
               Ins("exit", "net"),         \* processfd.py:116 raises: os is
               Ins("end", "raise") >>      \* not imported; the scope is left

Cur(p) == Program(p)[run.pc[p]]

(* p is between two statements, about to run one with this op *)
At(p, op) == run.pc[p] > 0 /\ run.ph[p] = "run" /\ Cur(p).op = op

Done(p, arg) == <<p, arg>> \in run.done

(* an Event.wait that returns whether the event is set or not *)
IsSetAlways(r, p, b) == TRUE

(* Event.is_set of the event of barrier b in process p *)
IsSet(r, p, b) == b \in r.flag[p]

(* the main flow of p holds the lock of the event of barrier b: it is      *)
(* inside the with-block of Event.wait or Event.clear                      *)
HoldsLock(p, b) ==
    /\ run.pc[p] > 0
    /\ run.ph[p] \in {"locked", "woken", "clearing"}
    /\ Cur(p).arg = b

NotRun == <<StackVars, wire, mapper, store>>

RunInit ==
    /\ run = [pc |-> [p \in Procs |-> IF p = "parent" THEN 1 ELSE 0],
              ph |-> [p \in Procs |-> "run"],
              flag |-> [p \in Procs |-> {}],
              pend |-> {},
              handler |-> [p \in Procs |-> "dfl"],
              done |-> {},
              failed |-> {},
              sent |-> [p \in Procs |-> 0],
              ret |-> [p \in Procs |-> 0]]
    /\ StackIdle
    /\ wire = Idle
    /\ mapper = Idle
    /\ store = Idle

(* a statement that touches no barrier; recvmsg blocks until the message   *)
(* has been sent; execv, sys.exit, waitpid and the raise end the program   *)
Step(p) ==
    /\ At(p, "step") \/ At(p, "end")
    /\ Cur(p).arg = "recvmsg" => Done("net_child", "sendmsg")
    /\ run' = [run EXCEPT
                 !.done = @ \cup {<<p, Cur(p).arg>>},
                 !.pc[p] = IF Cur(p).op = "end" THEN @ ELSE @ + 1,
                 !.ph[p] = IF Cur(p).op = "end" THEN "ended" ELSE @]
    /\ UNCHANGED NotRun

(* signal.signal(SIGUSR1, ...) outside a barrier, and ForkBarrier.__exit__ *)
SetHandler(p) ==
    /\ At(p, "handler") \/ At(p, "exit")
    /\ run' = [run EXCEPT
                 !.handler[p] = IF Cur(p).op = "exit" THEN "dfl"
                                ELSE Cur(p).arg,
                 !.pc[p] = @ + 1]
    /\ UNCHANGED NotRun

(* ForkBarrier() and __enter__: a new event, the handler that sets it,     *)
(* then the fork; the child starts with a copy of the parent               *)
Enter(p) ==
    /\ At(p, "enter")
    /\ LET b == Cur(p).arg
           c == ForkOf(b)
       IN  run' = [run EXCEPT
                     !.flag[p] = @ \ {b},
                     !.flag[c] = run.flag[p] \ {b},
                     !.handler[p] = b,
                     !.handler[c] = b,
                     !.sent[p] = 0,
                     !.ret[p] = 0,
                     !.pc[p] = @ + 1,
                     !.pc[c] = 1]
    /\ UNCHANGED NotRun

(* ForkBarrier.signal: os.kill(other_pid, SIGUSR1) *)
Signal(p) ==
    /\ At(p, "signal")
    /\ LET q == OtherPid(p, Cur(p).arg)
       IN  run' = [run EXCEPT
                     !.pend = @ \cup {q},
                     !.sent[q] = @ + 1,
                     !.pc[p] = @ + 1]
    /\ UNCHANGED NotRun

(* the SIGUSR1 handler of p runs: by default the signal ends the process;  *)
(* a barrier's handler calls Event.set, which takes the event's lock, sets *)
(* the flag and wakes the waiter.  The lock is not reentrant: a handler    *)
(* that interrupts a main flow holding it never gets it                    *)
Handler(p) ==
    /\ p \in run.pend
    /\ run.pc[p] > 0
    /\ run.ph[p] \notin {"ended", "killed", "stuck"}
    /\ LET h == run.handler[p]
       IN  run' = [run EXCEPT
                     !.pend = @ \ {p},
                     !.ph[p] = IF h = "dfl" THEN "killed"
                               ELSE IF HoldsLock(p, h) THEN "stuck"
                               ELSE @,
                     !.flag[p] = IF h \in {"dfl", "pre"} \/ HoldsLock(p, h)
                                 THEN @ ELSE @ \cup {h}]
    /\ UNCHANGED NotRun

(* self._evt.wait(): take the lock, read the flag; if it is not set,       *)
(* release the lock and block until notified, then take the lock again;    *)
(* release it and return                                                   *)
EventWait(p) ==
    /\ run.pc[p] > 0
    /\ Cur(p).op = "wait"
    /\ LET b == Cur(p).arg
       IN  \/ /\ run.ph[p] = "run"
              /\ run' = [run EXCEPT !.ph[p] = "locked"]
           \/ /\ run.ph[p] = "locked"
              /\ run' = [run EXCEPT !.ph[p] = IF IsSet(run, p, b)
                                              THEN "returned" ELSE "blocked"]
           \/ /\ run.ph[p] = "blocked"
              /\ IsSet(run, p, b)
              /\ run' = [run EXCEPT !.ph[p] = "woken"]
           \/ /\ run.ph[p] = "woken"
              /\ run' = [run EXCEPT !.ph[p] = "returned"]
    /\ UNCHANGED NotRun

(* self._evt.clear(): take the lock, reset the flag, release; wait returns *)
EventClear(p) ==
    /\ run.pc[p] > 0
    /\ Cur(p).op = "wait"
    /\ \/ /\ run.ph[p] = "returned"
          /\ run' = [run EXCEPT !.ph[p] = "clearing"]
       \/ /\ run.ph[p] = "clearing"
          /\ run' = [run EXCEPT
                       !.flag[p] = @ \ {Cur(p).arg},
                       !.ph[p] = "run",
                       !.ret[p] = @ + 1,
                       !.pc[p] = @ + 1]
    /\ UNCHANGED NotRun

(* newuidmap / newgidmap: subprocess.call runs the helper and returns its  *)
(* exit status, which the caller drops                                     *)
MapCall(p, status) ==
    /\ At(p, "map")
    /\ run' = [run EXCEPT
                 !.done = @ \cup {<<p, Cur(p).arg>>},
                 !.failed = IF status = 0 THEN @ ELSE @ \cup {Cur(p).arg},
                 !.pc[p] = @ + 1]
    /\ UNCHANGED NotRun

RunNext ==
    \/ \E p \in Procs : Step(p)
    \/ \E p \in Procs : SetHandler(p)
    \/ \E p \in Procs : Enter(p)
    \/ \E p \in Procs : Signal(p)
    \/ \E p \in Procs : Handler(p)
    \/ \E p \in Procs : EventWait(p)
    \/ \E p \in Procs : EventClear(p)
    \/ \E p \in Procs, status \in {0, 1} : MapCall(p, status)

RunSpec == RunInit /\ [][RunNext]_vars

(* C17: in the main fork the init child mounts, chroots and execs only     *)
(* after the parent's newuidmap and newgidmap calls have returned, and the *)
(* parent makes those calls only after the child has unshared.             *)
C17_MapsBeforeChildProceeds ==
    /\ (\E step \in {"mount", "chroot", "execv"} : Done("init_child", step))
       => Done("parent", "uid") /\ Done("parent", "gid")
    /\ (Done("parent", "uid") \/ Done("parent", "gid"))
       => Done("init_child", "unshare")

(* the init child has been released and has reached execv *)
C17_Witness ==
    /\ Done("init_child", "execv")
    /\ Done("parent", "uid") /\ Done("parent", "gid")
    /\ run.ret["init_child"] = 1

(* C18: once a newuidmap or newgidmap helper has exited with an error,     *)
(* the child that was waiting for its maps is never released: it does not  *)
(* mount, chroot or exec.                                                  *)
C18_MapFailureFatal ==
    run.failed \cap {"uid", "gid"} # {}
    => /\ run.ret["init_child"] = 0
       /\ \A step \in {"mount", "chroot", "execv"} : ~Done("init_child", step)

(* C19: a wait returns only after a signal of its peer that no earlier     *)
(* wait of the scope has used, a signal sent before the wait is called is  *)
(* kept for it, and no process whose peer has signalled is left in a wait  *)
(* that can never return.                                                  *)
C19_ForkBarrierRendezvous ==
    /\ \A p \in Procs : run.ret[p] <= run.sent[p]
    /\ \A p \in Procs :
          (run.pc[p] > 0 /\ Cur(p).op = "wait" /\ run.sent[p] > run.ret[p])
          => run.ph[p] # "stuck"

(* the map calls the parent makes for a child that mounts *)
MapsOf(c) ==
    IF c = "spec_child" THEN {"spec_uid", "spec_gid"} ELSE {"uid", "gid"}

(* C35: every overlay mount is made by a child that has unshared its       *)
(* namespaces and whose uid and gid maps the parent has installed, in the  *)
(* pre-flight child and in the init child alike, and the parent never      *)
(* mounts.                                                                 *)
C35_MountInsideNamespace ==
    /\ \A c \in {"spec_child", "init_child"} :
          Done(c, "mount")
          => /\ Done(c, "unshare")
             /\ \A m \in MapsOf(c) : Done("parent", m) /\ m \notin run.failed
    /\ ~Done("parent", "mount")

(* p is inside the with-block of barrier b: it has run __enter__ of b, or  *)
(* was forked by it, and has not run its __exit__ nor ended                *)
InScope(p, b) ==
    /\ run.pc[p] > 0
    /\ run.ph[p] \notin {"ended", "killed"}
    /\ \/ p = ForkOf(b)
       \/ \E i \in 1..(run.pc[p] - 1) : Program(p)[i] = Ins("enter", b)
    /\ ~\E i \in 1..(run.pc[p] - 1) : Program(p)[i] = Ins("exit", b)

(* C40: while a ForkBarrier scope is active in a process, SIGUSR1 never    *)
(* has the default disposition there and is handled by the handler of a    *)
(* scope that is active, also after a nested scope has been entered and    *)
(* left.                                                                   *)
C40_HandlerWhileInScope ==
    \A p \in Procs, b \in {"spec", "main", "net"} :
        InScope(p, b)
        => /\ run.handler[p] # "dfl"
           /\ InScope(p, run.handler[p])

(***************************************************************************)
(* The container store.  store holds containers.json (missing, not JSON,   *)
(* or a JSON object from container ids to JSON objects, with the order of  *)
(* its keys), the container directories, the last call and what it         *)
(* returned, and the file and directories as they were before the call.   *)
(* None is the empty sequence, a value v that is present is <<v>>.         *)
(***************************************************************************)

ContainerIds == {"a", "b", "c"}

(* the Container records a caller can pass *)
Containers ==
    [container_id : ContainerIds,
     pid : {<<>>, <<7>>},
     image_registry : {"registry.hub.docker.com"},
     image_name : {"library/alpine"}]

(* Container.asdict as json.dump writes it *)
AsJson(c) ==
    [container_id |-> <<"string", c.container_id>>,
     pid |-> IF c.pid = <<>> THEN <<"null">> ELSE <<"number", c.pid[1]>>,
     image_registry |-> <<"string", c.image_registry>>,
     image_name |-> <<"string", c.image_name>>]

(* the Container built from the members of an object json.load has read *)
FromJson(d) ==
    [container_id |-> d.container_id[2],
     pid |-> IF d.pid[1] = "null" THEN <<>> ELSE <<d.pid[2]>>,
     image_registry |-> d.image_registry[2],
     image_name |-> d.image_name[2]]

NoObject == [k \in {} |-> <<>>]

(* the orders in which a JSON object can hold the keys K *)
Orders(K) ==
    {o \in [1..Cardinality(K) -> K] :
        \A i, j \in 1..Cardinality(K) : i # j => o[i] # o[j]}

(* the states of containers.json: json.load and json.dump keep the order   *)
(* of an object's keys                                                     *)
Files ==
    {[kind |-> k, data |-> NoObject, order |-> <<>>] :
        k \in {"missing", "empty"}}
    \cup UNION {{[kind |-> "json", data |-> [k \in K |-> AsJson(f[k])],
                  order |-> o] :
                    f \in {g \in [K -> Containers] :
                              \A k \in K : g[k].container_id = k},
                    o \in Orders(K)} :
                K \in SUBSET ContainerIds}

(* get_container: the exception it raises, or the value it returns *)
GetContainer(file, container_id) ==
    IF file.kind = "missing"
    THEN [err |-> "FileNotFoundError", val |-> <<>>]
    ELSE LET containers == IF file.kind = "json" THEN file.data ELSE NoObject
         IN  IF container_id \notin DOMAIN containers
             THEN [err |-> "", val |-> <<>>]
             ELSE [err |-> "", val |-> <<FromJson(containers[container_id])>>]

(* store_container: the file it leaves.  touch() creates a missing file    *)
(* empty; json.load of a file without JSON raises ValueError, which is     *)
(* caught, and nothing is written.  Assigning a key the object holds keeps *)
(* its place, a new key goes last                                          *)
Stored(file, c) ==
    IF file.kind \in {"missing", "empty"}
    THEN [kind |-> "empty", data |-> NoObject, order |-> <<>>]
    ELSE [kind |-> "json",
          data |-> [k \in DOMAIN file.data \cup {c.container_id} |->
                       IF k = c.container_id THEN AsJson(c)
                       ELSE file.data[k]],
          order |-> IF c.container_id \in DOMAIN file.data THEN file.order
                    ELSE Append(file.order, c.container_id)]

(* o without the key k *)
RECURSIVE Del(_, _)
Del(o, k) ==
    IF o = <<>> THEN <<>>
    ELSE IF Head(o) = k THEN Del(Tail(o), k)
    ELSE <<Head(o)>> \o Del(Tail(o), k)

(* remove_container: whether it gets past the try block: json.load of a    *)
(* file without JSON raises ValueError and del of a key that is not there  *)
(* raises KeyError; both are caught and the method returns                 *)
Removes(file, c) == file.kind = "json" /\ c.container_id \in DOMAIN file.data

(* a remove_container that writes the remaining entries last key first *)
RemovedReversed(file, c) ==
    IF ~Removes(file, c)
    THEN [kind |-> IF file.kind = "missing" THEN "empty" ELSE file.kind,
          data |-> file.data, order |-> file.order]
    ELSE LET o == Del(file.order, c.container_id)
         IN  [kind |-> "json",
              data |-> [k \in DOMAIN file.data \ {c.container_id} |->
                           file.data[k]],
              order |-> [i \in 1..Len(o) |-> o[Len(o) + 1 - i]]]

(* remove_container: the file it leaves *)
Removed(file, c) ==
    IF ~Removes(file, c)
    THEN [kind |-> IF file.kind = "missing" THEN "empty" ELSE file.kind,
          data |-> file.data, order |-> file.order]
    ELSE [kind |-> "json",
          data |-> [k \in DOMAIN file.data \ {c.container_id} |->
                       file.data[k]],
          order |-> Del(file.order, c.container_id)]

(* list_containers: the records, in the order of the file's keys *)
ListContainers(file) ==
    [i \in 1..Len(file.order) |-> FromJson(file.data[file.order[i]])]

NotStore == <<StackVars, wire, mapper, run>>

NoReturn == [err |-> "", val |-> <<>>]

(* a store: containers.json and the container directories under it *)
StoreInit ==
    /\ store \in [file : Files, dirs : SUBSET ContainerIds,
                  before : {[kind |-> "missing", data |-> NoObject,
                             order |-> <<>>]},
                  dirs_before : {{}},
                  op : {"none"}, arg : {<<>>}, ret : {NoReturn}]
    /\ StackIdle
    /\ wire = Idle
    /\ mapper = Idle
    /\ run = Idle

StoreContainer(c) ==
    /\ store' = [file |-> Stored(store.file, c),
                 dirs |-> store.dirs,
                 before |-> store.file,
                 dirs_before |-> store.dirs,
                 op |-> "store_container",
                 arg |-> <<c>>,
                 ret |-> NoReturn]
    /\ UNCHANGED NotStore

GetContainerCall(container_id) ==
    /\ store' = [store EXCEPT
                   !.before = store.file,
                   !.dirs_before = store.dirs,
                   !.op = "get_container",
                   !.arg = <<container_id>>,
                   !.ret = GetContainer(store.file, container_id)]
    /\ UNCHANGED NotStore

(* remove_container: past the try block, shutil.rmtree of the directory *)
RemoveContainer(c) ==
    /\ store' = [file |-> Removed(store.file, c),
                 dirs |-> IF Removes(store.file, c)
                          THEN store.dirs \ {c.container_id}
                          ELSE store.dirs,
                 before |-> store.file,
                 dirs_before |-> store.dirs,
                 op |-> "remove_container",
                 arg |-> <<c>>,
                 ret |-> NoReturn]
    /\ UNCHANGED NotStore

ListContainersCall ==
    /\ store' = [store EXCEPT
                   !.before = store.file,
                   !.dirs_before = store.dirs,
                   !.op = "list_containers",
                   !.arg = <<>>,
                   !.ret = [err |-> "", val |-> ListContainers(store.file)]]
    /\ UNCHANGED NotStore

StoreNext ==
    \/ \E c \in Containers : StoreContainer(c)
    \/ \E id \in ContainerIds : GetContainerCall(id)
    \/ \E c \in Containers : RemoveContainer(c)
    \/ ListContainersCall

StoreSpec == StoreInit /\ [][StoreNext]_vars

(* the record the store holds for an id, None without one *)
RecordOf(file, container_id) ==
    IF file.kind = "json" /\ container_id \in DOMAIN file.data
    THEN <<FromJson(file.data[container_id])>> ELSE <<>>

(* C20: after store_container(c), whatever containers.json was before,     *)
(* get_container(c.container_id) returns a record equal to c and the       *)
(* record of every other id is as it was.                                  *)
C20_StoreUpserts ==
    store.op = "store_container"
    => LET c == store.arg[1]
       IN  /\ GetContainer(store.file, c.container_id)
                = [err |-> "", val |-> <<c>>]
           /\ \A id \in ContainerIds \ {c.container_id} :
                 RecordOf(store.file, id) = RecordOf(store.before, id)

(* C21: get_container returns None, and raises nothing, for an id without *)
(* a record, whatever the store holds, a store nothing was written to      *)
(* included.                                                               *)
C21_GetAbsentReturnsNone ==
    (store.op = "get_container"
       /\ RecordOf(store.file, store.arg[1]) = <<>>)
    => store.ret = NoReturn

ExitCodes == 0..255

Pids == {7, 8}

(* the stores a launch starts on: nothing written yet, or at most one      *)
(* record, with its directory                                              *)
LaunchStores == {f \in Files : Len(f.order) <= 1}

(* Container(container_id=container_name, pid=...) *)
NewContainer(cfg, pid) ==
    [container_id |-> cfg.container_name, pid |-> pid,
     image_registry |-> "registry.hub.docker.com",
     image_name |-> "library/alpine"]

(* the status os.waitpid returns for a child that called exit(code) *)
WaitStatus(code) == code * 256

(* the exit code of a process that calls sys.exit(n) *)
SysExit(n) == n % 256

LaunchInit ==
    /\ \E f \in LaunchStores :
          store = [file |-> f, dirs |-> DOMAIN f.data,
                   before |-> f, dirs_before |-> DOMAIN f.data,
                   op |-> "none", arg |-> <<>>, ret |-> NoReturn]
    /\ run \in [pc : {"start"},
                cfg : [container_name : {"a", "b"}, daemon : BOOLEAN,
                       remove : BOOLEAN],
                forks : {0}, pid : {<<>>}, child : {"none"}, code : {0},
                exit : {<<>>}]
    /\ StackIdle
    /\ wire = Idle
    /\ mapper = Idle

NotLaunch == <<StackVars, wire, mapper>>

(* run.py:217-233: the record with pid None is stored, the container       *)
(* directory made                                                          *)
StoreRecord ==
    /\ run.pc = "start"
    /\ store' = [store EXCEPT
                   !.file = Stored(@, NewContainer(run.cfg, <<>>)),
                   !.dirs = @ \cup {run.cfg.container_name}]
    /\ run' = [run EXCEPT !.pc = "preflight"]
    /\ UNCHANGED NotLaunch

(* run.py:246-247: _get_container_spec forks the pre-flight child *)
PreFlight ==
    /\ run.pc = "preflight"
    /\ run' = [run EXCEPT !.pc = "fork", !.forks = @ + 1]
    /\ UNCHANGED <<store, NotLaunch>>

(* run.py:249-267: the main fork; the parent stores the child's pid *)
MainFork(pid) ==
    /\ run.pc = "fork"
    /\ store' = [store EXCEPT
                   !.file = Stored(@, NewContainer(run.cfg, <<pid>>))]
    /\ run' = [run EXCEPT !.pc = "release", !.forks = @ + 1,
                          !.pid = <<pid>>, !.child = "running"]
    /\ UNCHANGED NotLaunch

(* run.py:269-283: maps, TUN, signal, reader thread; a daemon run leaves   *)
(* run_command here                                                        *)
Release ==
    /\ run.pc = "release"
    /\ run' = [run EXCEPT
                 !.pc = IF run.cfg.daemon THEN "done" ELSE "waitpid",
                 !.exit = IF run.cfg.daemon THEN <<0>> ELSE @]
    /\ UNCHANGED <<store, NotLaunch>>

(* the init child exits *)
ChildExit(code) ==
    /\ run.child = "running"
    /\ run.pc \in {"waitpid", "done"}
    /\ run' = [run EXCEPT !.child = "exited", !.code = code]
    /\ UNCHANGED <<store, NotLaunch>>

(* run.py:286-292: waitpid, removal when remove is set, sys.exit(retcode) *)
WaitChild ==
    /\ run.pc = "waitpid"
    /\ run.child = "exited"
    /\ LET retcode == WaitStatus(run.code)
           c == NewContainer(run.cfg, run.pid)
       IN  /\ run' = [run EXCEPT !.pc = "done",
                                 !.exit = <<SysExit(retcode)>>]
           /\ store' = IF run.cfg.remove
                       THEN [store EXCEPT
                               !.file = Removed(@, c),
                               !.dirs = @ \ {c.container_id}]
                       ELSE store
    /\ UNCHANGED NotLaunch

LaunchNext ==
    \/ StoreRecord
    \/ PreFlight
    \/ \E pid \in Pids : MainFork(pid)
    \/ Release
    \/ \E code \in ExitCodes : ChildExit(code)
    \/ WaitChild

LaunchSpec == LaunchInit /\ [][LaunchNext]_vars

(* the stored record of the container being launched *)
Launched == RecordOf(store.file, run.cfg.container_name)

(* C23: the record with pid None is in the store before the first fork,    *)
(* after the main fork the stored pid is the init child's, and a           *)
(* foreground run with remove set leaves neither record nor directory.     *)
C23_RecordLifecycle ==
    /\ (run.pc \in {"preflight", "fork"} /\ run.forks <= 1)
       => Launched = <<NewContainer(run.cfg, <<>>)>>
    /\ run.pc \in {"release", "waitpid"}
       => Launched = <<NewContainer(run.cfg, run.pid)>>
    /\ (run.pc = "done" /\ ~run.cfg.daemon /\ run.cfg.remove)
       => Launched = <<>> /\ run.cfg.container_name \notin store.dirs

(* C24: the parent of a foreground run exits with the init child's exit    *)
(* code.                                                                   *)
C24_ExitCode ==
    (run.pc = "done" /\ ~run.cfg.daemon) => run.exit = <<run.code>>

(* C25: a configuration with daemon and remove both set is rejected: no    *)
(* record is stored, nothing is forked, the exit code is not 0.            *)
C25_DaemonRemoveRejected ==
    (run.cfg.daemon /\ run.cfg.remove)
    => /\ \A id \in ContainerIds :
             RecordOf(store.file, id) = RecordOf(store.before, id)
       /\ run.forks = 0
       /\ run.pc = "done" => run.exit # <<0>>

(***************************************************************************)
(* rm_container.  store is the container store; run holds the arguments,   *)
(* the statement the command is at, the record it read, the process the    *)
(* recorded pid names (alive or gone, now and when the command started),   *)
(* the polls made, the signals sent and what was printed.  The process can *)
(* exit between any two statements.                                        *)
(***************************************************************************)

Polls == 50

RmStores == {f \in Files : Len(f.order) <= 2}

(* an os.kill that succeeds whether the process exists or not *)
KillNeverRaises(proc) == FALSE

(* os.kill(pid, sig) raises OSError: there is no such process *)
KillRaises(proc) == proc = "gone"

RmInit ==
    /\ \E f \in RmStores :
          store = [file |-> f, dirs |-> DOMAIN f.data,
                   before |-> f, dirs_before |-> DOMAIN f.data,
                   op |-> "none", arg |-> <<>>, ret |-> NoReturn]
    /\ run \in [pc : {"get"}, container_id : {"a"}, force : BOOLEAN,
                container : {<<>>}, proc : {"alive", "gone"},
                proc0 : {"alive", "gone"}, polls : {0}, sent : {<<>>},
                out : {""}]
    /\ run.proc = run.proc0
    /\ StackIdle
    /\ wire = Idle
    /\ mapper = Idle

(* the process exits by itself, or some time after a signal *)
ProcExit ==
    /\ run.proc = "alive"
    /\ run.pc \notin {"done", "raised"}
    /\ run' = [run EXCEPT !.proc = "gone"]
    /\ UNCHANGED <<store, NotLaunch>>

(* containers.py:24-29 *)
RmGet ==
    /\ run.pc = "get"
    /\ LET got == GetContainer(store.file, run.container_id)
       IN  run' = [run EXCEPT
                     !.container = got.val,
                     !.out = IF got.err = "" /\ got.val = <<>>
                             THEN "not found" ELSE @,
                     !.pc = IF got.err # "" THEN "raised"
                            ELSE IF got.val = <<>> THEN "done"
                            ELSE IF got.val[1].pid = <<>> THEN "remove"
                            ELSE "probe"]
    /\ UNCHANGED <<store, NotLaunch>>

(* containers.py:30-41: os.kill(pid, 0), the refusal without force *)
RmProbe ==
    /\ run.pc = "probe"
    /\ run' = [run EXCEPT
                 !.out = IF ~KillRaises(run.proc) /\ ~run.force
                         THEN "running" ELSE @,
                 !.pc = IF KillRaises(run.proc) THEN "remove"
                        ELSE IF ~run.force THEN "done"
                        ELSE "term"]
    /\ UNCHANGED <<store, NotLaunch>>

(* containers.py:46: os.kill(pid, SIGTERM), outside any try *)
StopTerm ==
    /\ run.pc = "term"
    /\ run' = [run EXCEPT
                 !.sent = IF KillRaises(run.proc) THEN @
                          ELSE Append(@, "SIGTERM"),
                 !.pc = IF KillRaises(run.proc) THEN "raised" ELSE "poll"]
    /\ UNCHANGED <<store, NotLaunch>>

(* containers.py:47-53: one turn of the loop, or its end *)
StopPoll ==
    /\ run.pc = "poll"
    /\ run' = IF run.polls = Polls THEN [run EXCEPT !.pc = "kill"]
              ELSE [run EXCEPT
                      !.polls = @ + 1,
                      !.pc = IF KillRaises(run.proc) THEN "remove" ELSE @]
    /\ UNCHANGED <<store, NotLaunch>>

(* containers.py:56: os.kill(pid, 9), outside any try *)
StopKill ==
    /\ run.pc = "kill"
    /\ run' = [run EXCEPT
                 !.sent = IF KillRaises(run.proc) THEN @
                          ELSE Append(@, "SIGKILL"),
                 !.proc = "gone",
                 !.pc = IF KillRaises(run.proc) THEN "raised" ELSE "remove"]
    /\ UNCHANGED <<store, NotLaunch>>

(* containers.py:42: storage.remove_container(container) *)
RmRemove ==
    /\ run.pc = "remove"
    /\ store' = [store EXCEPT
                   !.file = Removed(@, run.container[1]),
                   !.dirs = IF Removes(store.file, run.container[1])
                            THEN @ \ {run.container_id} ELSE @]
    /\ run' = [run EXCEPT !.pc = "done"]
    /\ UNCHANGED NotLaunch

RmNext ==
    \/ ProcExit
    \/ RmGet
    \/ RmProbe
    \/ StopTerm
    \/ StopPoll
    \/ StopKill
    \/ RmRemove

RmSpec == RmInit /\ [][RmNext]_vars

(* the record rm was asked to remove, as stored when the command started *)
Recorded == RecordOf(store.before, run.container_id)

C27_ForceStop ==
    (run.force /\ Recorded # <<>> /\ Recorded[1].pid # <<>>
       /\ run.proc0 = "alive")
    => /\ run.polls <= Polls
       /\ run.sent \in {<<>>, <<"SIGTERM">>, <<"SIGTERM", "SIGKILL">>}
       /\ Len(run.sent) = 2 => run.polls = Polls
       /\ run.pc # "raised"
       /\ run.pc = "done" => RecordOf(store.file, run.container_id) = <<>>

(***************************************************************************)
(* Pull tokens.  store holds pull_tokens.json: for each registry and repo  *)
(* the stored token, or None; run holds the clock in seconds, the last     *)
(* call, its result and the tokens before it.                              *)
(***************************************************************************)

MaxNow == 3

Grace == 60

Repos == {<<"docker.io", "library/alpine">>, <<"docker.io", "library/busybox">>}

(* the tokens a store can hold *)
PullTokens ==
    [token : {"t"}, expires_in : {Grace, Grace + 1, Grace + 2},
     issued_at : {0, 1}]

(* PullToken.expires_at *)
ExpiresAt(t) == t.issued_at + (t.expires_in - Grace)

(* PullToken.is_expired: datetime.now(timezone.utc) > self.expires_at *)
IsExpired(t, now) == now > ExpiresAt(t)

(* get_pull_token: the value returned and the tokens left in the file *)
GetPullToken(tokens, key, now) ==
    IF tokens[key] = <<>> THEN [val |-> <<>>, tokens |-> tokens]
    ELSE IF IsExpired(tokens[key][1], now)
    THEN [val |-> <<>>, tokens |-> [tokens EXCEPT ![key] = <<>>]]
    ELSE [val |-> tokens[key], tokens |-> tokens]

TokenInit ==
    /\ store \in [tokens : [Repos -> {<<>>} \cup {<<t>> : t \in PullTokens}]]
    /\ run \in [now : 0..MaxNow, op : {"none"}, key : {<<>>},
                val : {<<>>}, before : {<<>>}]
    /\ StackIdle
    /\ wire = Idle
    /\ mapper = Idle

GetPullTokenCall(key) ==
    /\ LET got == GetPullToken(store.tokens, key, run.now)
       IN  /\ store' = [store EXCEPT !.tokens = got.tokens]
           /\ run' = [run EXCEPT !.op = "get_pull_token", !.key = key,
                                 !.val = got.val, !.before = store.tokens]
    /\ UNCHANGED NotLaunch

(* time passes *)
Tick ==
    /\ run.now < MaxNow
    /\ run' = [run EXCEPT !.now = @ + 1, !.op = "none"]
    /\ UNCHANGED <<store, NotLaunch>>

TokenNext ==
    \/ \E key \in Repos : GetPullTokenCall(key)
    \/ Tick

TokenSpec == TokenInit /\ [][TokenNext]_vars

(* C28: a token is expired exactly from issued_at + expires_in - 60 s on;  *)
(* get_pull_token never returns an expired token, deletes the expired      *)
(* token it finds and returns None, returns a token that is not expired,   *)
(* and leaves the tokens of every other registry and repo as they were.    *)
C28_NoExpiredToken ==
    run.op = "get_pull_token"
    => LET t == run.before[run.key]
           expired == run.now >= t[1].issued_at + t[1].expires_in - 60
       IN  /\ t = <<>> => run.val = <<>>
           /\ (t # <<>> /\ expired)
              => run.val = <<>> /\ store.tokens[run.key] = <<>>
           /\ (t # <<>> /\ ~expired)
              => run.val = t /\ store.tokens[run.key] = t
           /\ \A k \in Repos \ {run.key} : store.tokens[k] = run.before[k]

(***************************************************************************)
(* Pulling an image.  store is the image store: the entries of images.json *)
(* by key, the digests that have a manifest.json and a config.json, the    *)
(* layers extracted, and whether a usable pull token is stored.  run is    *)
(* load_docker_image: the reference, the statement it is at, the requests  *)
(* made in this pull and the store as it was when the pull started.  The   *)
(* registry serves one image, tagged latest; any request can fail.         *)
(***************************************************************************)

MaxPulls == 2

Repo == "library/alpine"

ImageDigest == "sha256:d1"

ImageLayers == <<"sha256:l1", "sha256:l2">>

References == {"latest", ImageDigest}

(* ImageSummary(digest, registry, name, tags).asdict() *)
Summary(digest, tags) ==
    [digest |-> digest, registry |-> "docker.io", name |-> Repo,
     tags |-> tags]

NoImages == [k \in {} |-> <<>>]

(* store_manifest: manifest.json written, the entry of images.json set *)
StoreManifest(st, digest, tags) ==
    [st EXCEPT
       !.manifests = @ \cup {digest},
       !.images = [k \in DOMAIN st.images \cup {digest} |->
                     IF k = digest THEN Summary(digest, tags)
                     ELSE st.images[k]]]

(* get_manifest: the digest of the stored manifest for the reference; at   *)
(* most one entry of a store here matches a tag, so the first match is the *)
(* only one                                                                *)
GetManifest(st, reference) ==
    LET found == IF reference = ImageDigest
                 THEN {k \in DOMAIN st.images :
                          k = reference /\ st.images[k].name = Repo}
                 ELSE {k \in DOMAIN st.images :
                          /\ st.images[k].name = Repo
                          /\ \E i \in 1..Len(st.images[k].tags) :
                                st.images[k].tags[i] = reference}
    IN  {st.images[k].digest : k \in found} \cap st.manifests

(* get_image: the stored image, if manifest, config and every layer are    *)
(* there                                                                   *)
GetImage(st, reference) ==
    {d \in GetManifest(st, reference) :
        /\ d \in st.configs
        /\ \A i \in 1..Len(ImageLayers) : <<d, ImageLayers[i]>> \in st.layers}

(* the image stores a pull can start on: the image absent, only its        *)
(* manifest stored, or complete; another image listed or not               *)
ImageStores ==
    {[images |-> [k \in K \cup O |->
                    IF k = ImageDigest THEN Summary(k, <<"latest">>)
                    ELSE Summary(k, <<"3.18">>)],
      manifests |-> K \cup O,
      configs |-> C \cup O,
      layers |-> {<<d, ImageLayers[i]>> :
                    d \in C, i \in 1..Len(ImageLayers)},
      token |-> t] :
        K \in {{}, {ImageDigest}}, C \in {{}, {ImageDigest}},
        O \in {{}, {"sha256:d0"}}, t \in BOOLEAN}

PullInit ==
    /\ store \in {st \in ImageStores : st.configs \subseteq st.manifests}
    /\ run \in [pc : {"token"}, reference : References, pull : {1},
                blob_gets : {0}, layer : {1}, before : {<<>>}]
    /\ StackIdle
    /\ wire = Idle
    /\ mapper = Idle

(* a request whose raise_for_status raises: the pull ends there *)
Failed == [run EXCEPT !.pc = "failed"]

(* _get_pull_token: the stored token, or a request to the token endpoint *)
PullToken(ok) ==
    /\ run.pc = "token"
    /\ IF store.token
       THEN /\ run' = [run EXCEPT !.pc = "manifest", !.before = store]
            /\ store' = store
       ELSE IF ok
       THEN /\ store' = [store EXCEPT !.token = TRUE]
            /\ run' = [run EXCEPT !.pc = "manifest", !.before = store]
       ELSE /\ run' = [Failed EXCEPT !.before = store]
            /\ store' = store
    /\ UNCHANGED NotLaunch

(* _get_image_manifest: a digest reference has no media type and raises;   *)
(* else the index and the manifest are requested and the manifest stored   *)
PullManifest(ok) ==
    /\ run.pc = "manifest"
    /\ IF run.reference = ImageDigest \/ ~ok
       THEN run' = Failed /\ store' = store
       ELSE /\ store' = StoreManifest(store, ImageDigest, <<run.reference>>)
            /\ run' = [run EXCEPT !.pc = "config"]
    /\ UNCHANGED NotLaunch

(* _get_image_config: one blob request, then store_image_config *)
PullConfig(ok) ==
    /\ run.pc = "config"
    /\ IF ok
       THEN /\ store' = [store EXCEPT !.configs = @ \cup {ImageDigest}]
            /\ run' = [run EXCEPT !.pc = "layers", !.blob_gets = @ + 1]
       ELSE /\ run' = [Failed EXCEPT !.blob_gets = @ + 1]
            /\ store' = store
    /\ UNCHANGED NotLaunch

(* _get_image_layers: one turn of the loop, or its end and the return of   *)
(* load_docker_image                                                       *)
PullLayer(ok) ==
    /\ run.pc = "layers"
    /\ IF run.layer > Len(ImageLayers)
       THEN run' = [run EXCEPT !.pc = "done"] /\ store' = store
       ELSE IF ok
       THEN /\ store' = [store EXCEPT
                           !.layers = @ \cup
                               {<<ImageDigest, ImageLayers[run.layer]>>}]
            /\ run' = [run EXCEPT !.layer = @ + 1, !.blob_gets = @ + 1]
       ELSE /\ run' = [Failed EXCEPT !.blob_gets = @ + 1]
            /\ store' = store
    /\ UNCHANGED NotLaunch

(* the next pull of the same reference *)
PullAgain ==
    /\ run.pc \in {"done", "failed"}
    /\ run.pull < MaxPulls
    /\ run' = [run EXCEPT !.pc = "token", !.pull = @ + 1, !.blob_gets = 0,
                          !.layer = 1, !.before = <<>>]
    /\ UNCHANGED <<store, NotLaunch>>

PullNext ==
    \/ \E ok \in BOOLEAN : PullToken(ok)
    \/ \E ok \in BOOLEAN : PullManifest(ok)
    \/ \E ok \in BOOLEAN : PullConfig(ok)
    \/ \E ok \in BOOLEAN : PullLayer(ok)
    \/ PullAgain

PullSpec == PullInit /\ [][PullNext]_vars

(* the store without the token *)
ImageState(st) == <<st.images, st.manifests, st.configs, st.layers>>

(* C29: a pull of an image whose manifest, config and layers are all in    *)
(* the store makes no blob request, and afterwards images.json has exactly *)
(* one entry with the manifest's digest.                                   *)
C29_PullIdempotent ==
    (run.pc = "done" /\ GetImage(run.before, run.reference) # {})
    => /\ run.blob_gets = 0
       /\ Cardinality({k \in DOMAIN store.images :
                          store.images[k].digest = ImageDigest}) = 1

(* C30: a pull that fails at the config request or at a layer request      *)
(* leaves the image state of the store as it was before the pull.          *)
C30_FailedPullLeavesStore ==
    (run.pc = "failed" /\ run.blob_gets > 0)
    => ImageState(store) = ImageState(run.before)

---------------------------------------------------------------------------
(* Closing and data flow of a TCB: further properties of the TCP stack,    *)
(* stated on Spec.                                                         *)

(* the context in which _do_handle looks the handler of p up: after        *)
(* _handle_established_state if the TCB was ESTABLISHED                    *)
BeforeDispatch(p, susp) ==
    IF tcb[KnownId(p)].state = "ESTABLISHED"
    THEN HandleEstablished(Ctx, KnownId(p), p, susp)
    ELSE Ctx

(* C32: in CLOSE_WAIT any segment makes the stack emit exactly one FIN+ACK *)
(* whose seq is the snd_nxt before the send, advance snd_nxt by exactly 1  *)
(* and move the TCB to LAST_ACK.                                           *)
C32_CloseWaitSendsFin ==
    \A p \in Packets, susp \in BOOLEAN :
        KnownId(p) # 0
        => LET id == KnownId(p)
               c0 == BeforeDispatch(p, susp)
               c == Dispatch(c0, id, p)
           IN  (c0.halt = NoExc /\ c0.tcb[id].state = "CLOSE_WAIT")
               => /\ Len(c.out) = Len(c0.out) + 1
                  /\ SubSeq(c.out, 1, Len(c0.out)) = c0.out
                  /\ c.out[Len(c.out)].tcb = id
                  /\ IsFinAck(c.out[Len(c.out)])
                  /\ c.out[Len(c.out)].seq = c0.tcb[id].snd_nxt
                  /\ c.tcb[id].snd_nxt = Plus(c0.tcb[id].snd_nxt, 1)
                  /\ c.tcb[id].state = "LAST_ACK"

(* the data segments emitted for a TCB, in the order of emission *)
DataSegs(id) == SelectSeq(out, LAMBDA s : s.tcb = id /\ s.flags = ACK + PSH)

(* C33: every non-empty chunk the host-reader reads produces exactly one   *)
(* ACK+PSH segment carrying it, with seq = snd_nxt before the send and     *)
(* ack = rcv_nxt, and snd_nxt advances by the chunk's length; the data     *)
(* segments of a TCB carry contiguous ranges in the order of the reads.    *)
C33_ReaderDataSegments ==
    [][/\ \A t \in tasks, len \in ChunkLens :
            ReadData(t, len)
            => /\ Emitted(t.tcb)
               /\ LastOut'.flags = ACK + PSH
               /\ LastOut'.len = len
               /\ LastOut'.seq = tcb[t.tcb].snd_nxt
               /\ LastOut'.ack = tcb[t.tcb].rcv_nxt
               /\ tcb'[t.tcb].snd_nxt = Plus(tcb[t.tcb].snd_nxt, len)
       /\ \A id \in Ids :
            \A i \in 1..(Len(DataSegs(id)) - 1) :
               DataSegs(id)[i + 1].seq
                   = Plus(DataSegs(id)[i].seq, DataSegs(id)[i].len)]_vars

(* C34: the host-reader task of a TCB emits only while the TCB is          *)
(* ESTABLISHED: a step of the task that finds the TCB in another state     *)
(* emits nothing and leaves the TCB's state alone, so a removed (CLOSED)   *)
(* TCB is never moved back to LAST_ACK.                                    *)
C34_ReaderOnlyWhileEstablished ==
    [][\A t \in tasks :
          (/\ tcb[t.tcb].state # "ESTABLISHED"
           /\ \/ ReaderStart(t)
              \/ \E len \in ChunkLens : ReadData(t, len)
              \/ ReadEof(t)
              \/ ReadError(t))
          => /\ out' = out
             /\ tcb'[t.tcb].state = tcb[t.tcb].state]_vars

(* the FIN-flagged segments emitted for a TCB *)
FinSegs(id) == SelectSeq(out, LAMBDA s : s.tcb = id /\ HasFlag(s.flags, FIN))

(* C38: over the lifetime of a TCB at most one FIN-flagged segment is      *)
(* emitted, and so snd_nxt is advanced for a FIN at most once (a FIN is    *)
(* counted by _send_response when it is written), however the close by the *)
(* container and the close by the host interleave.                         *)
C38_SingleFin ==
    \A id \in Ids : Len(FinSegs(id)) <= 1

(* C39: the segments emitted while a FIN with sequence number q and        *)
(* payload length n is handled in ESTABLISHED, the ACK and the FIN+ACK,    *)
(* carry ack = q + n + 1.                                                  *)
C39_FinAcknowledged ==
    [][\A p \in Packets, susp \in BOOLEAN :
          (/\ KnownId(p) # 0
           /\ tcb[KnownId(p)].state = "ESTABLISHED"
           /\ HasFlag(p.flags, FIN)
           /\ HandlePacket(p, susp))
          => \A i \in (Len(out) + 1)..Len(out') :
                out'[i].ack = Plus(p.seq, p.len + 1)]_vars

(* C37: a TCB is ESTABLISHED only if its host connection has been opened  *)
(* (proxy_reader and proxy_writer set) and its SYN+ACK has been emitted,   *)
(* in every order of the incoming segments and the host connect.           *)
C37_EstablishedHasHost ==
    \A id \in Ids :
        tcb[id].state = "ESTABLISHED"
        => /\ tcb[id].proxy
           /\ \E i \in 1..Len(out) : out[i].tcb = id /\ IsSynAck(out[i])

(***************************************************************************)
(* The container file system.  run holds a _ContainerFS: the lower         *)
(* directories (_lowers, as prepare received them: the image's layers,     *)
(* bottom layer first), the volumes of the configuration (None is <<>>, a  *)
(* list vs is <<vs>>), the files linked under the volumes directory, and   *)
(* the lowerdir option of the last mount, as the list of its               *)
(* colon-separated members.                                                *)
(***************************************************************************)

LayerPaths == {"l0", "l1", "l2"}

VolumesDir == "volumes"

(* "source:target" arguments *)
VolumeArgs == {[source |-> "/etc/hosts", target |-> "etc/hosts"],
               [source |-> "/etc/motd", target |-> "etc/motd"]}

(* lists of distinct layers, bottom layer first *)
LayerLists ==
    {l \in UNION {[1..n -> LayerPaths] : n \in 1..3} :
        \A i, j \in 1..Len(l) : i # j => l[i] # l[j]}

VolumeLists ==
    {<<>>, <<<<>>>>}
    \cup {<<vs>> : vs \in UNION {[1..n -> VolumeArgs] : n \in 1..2}}

(* reversed(...) *)
Reversed(l) == [i \in 1..Len(l) |-> l[Len(l) + 1 - i]]

(* the loop of add_volumes over volumes from the i-th on: os.link raises   *)
(* FileExistsError if the target is there already; the volumes directory   *)
(* is appended to _lowers in every turn                                    *)
RECURSIVE LinkVolumes(_, _, _, _)
LinkVolumes(vs, i, lowers, linked) ==
    IF i > Len(vs)
    THEN [err |-> NoExc, lowers |-> lowers, linked |-> linked]
    ELSE IF vs[i].target \in linked
    THEN [err |-> "FileExistsError", lowers |-> lowers, linked |-> linked]
    ELSE LinkVolumes(vs, i + 1, Append(lowers, VolumesDir),
                     linked \cup {vs[i].target})

FsInit ==
    /\ run \in [pc : {"prepared"}, layers : LayerLists, lowers : LayerLists,
                volumes : VolumeLists, linked : {{}}, lowerdir : {<<>>},
                mounts : {0}, err : {NoExc}]
    /\ run.lowers = run.layers
    /\ store = Idle
    /\ StackIdle
    /\ wire = Idle
    /\ mapper = Idle

(* _ContainerFS.add_volumes(cfg.volumes) *)
AddVolumes ==
    /\ run.pc = "prepared"
    /\ IF run.volumes = <<>> \/ run.volumes[1] = <<>>
       THEN run' = [run EXCEPT !.pc = "ready"]
       ELSE LET r == LinkVolumes(run.volumes[1], 1, run.lowers, run.linked)
            IN  run' = [run EXCEPT
                          !.pc = IF r.err = NoExc THEN "ready" ELSE "failed",
                          !.lowers = r.lowers,
                          !.linked = r.linked,
                          !.err = r.err]
    /\ UNCHANGED <<store, NotLaunch>>

(* _ContainerFS.mount(), in the pre-flight child and again in the init     *)
(* child                                                                   *)
Mount ==
    /\ run.pc \in {"ready", "mounted"}
    /\ run.mounts < 2
    /\ run' = [run EXCEPT !.pc = "mounted",
                          !.lowerdir = Reversed(run.lowers),
                          !.mounts = @ + 1]
    /\ UNCHANGED <<store, NotLaunch>>

FsNext == AddVolumes \/ Mount

FsSpec == FsInit /\ [][FsNext]_vars

(* C31: the lowerdir of a mount lists the image's layers top layer first,  *)
(* and when volumes are supplied the volumes directory is in the list      *)
(* exactly once, after all the layers, however many volumes there are.     *)
C31_LowerdirOrder ==
    run.pc = "mounted"
    => /\ SelectSeq(run.lowerdir, LAMBDA d : d # VolumesDir)
              = Reversed(run.layers)
       /\ (run.volumes # <<>> /\ run.volumes[1] # <<>>)
          => /\ Cardinality({i \in 1..Len(run.lowerdir) :
                                 run.lowerdir[i] = VolumesDir}) = 1
             /\ run.lowerdir[Len(run.lowerdir)] = VolumesDir

====
